---- MODULE Spec2Model ----
(***************************************************************************)
(* State-machine model of the video-app backend controllers:               *)
(*   like.controller.js, subscription controller (dashboard.controller.js  *)
(*   second half), comment.controller.js, tweet / video controllers        *)
(*   (unnamed/part_000) and playlist controller (unnamed/part_003).        *)
(*                                                                         *)
(* Every `await` on the document store is one atomic store operation; a    *)
(* request handler is a sequence of such operations.  The toggle handlers  *)
(* are modelled step by step (one action step per await) so that requests  *)
(* may interleave; the ownership-guarded handlers are modelled as one      *)
(* action per handler.                                                     *)
(***************************************************************************)
EXTENDS Integers, Sequences, FiniteSets, TLC

\* ------------------------------------------------------------------ bounds
\* number of toggle requests issued in a run where requests are sequential
MaxSeqReqs == 3
\* number of toggle requests issued in a run where requests may interleave
MaxRaceReqs == 2

\* ------------------------------------------------------------ identifiers
Users == {"u1", "u2"}
VideoIds == {"v1", "v2", "v3", "v4"}
CommentIds == {"c1", "c2"}
TweetIds == {"t1", "t2"}
PlaylistIds == {"p1", "p2"}
\* the value of a Like field that is not set
Unset == "-"

VARIABLES
  videos,     \* Video collection: function from the ids of live documents
  comments,   \* Comment collection
  tweets,     \* Tweet collection
  playlists,  \* Playlist collection
  likes,      \* Like collection: set of rows [id, video, comment, tweet, likedBy]
  subs,       \* Subscription collection: set of rows [id, subscriber, channel]
  media,      \* assets held by the media store (Cloudinary)
  nextId,     \* next fresh _id / asset number
  reqs,       \* toggle requests, in the order they were received
  last,       \* latest request to an owner-guarded handler, with its response
  prev,       \* the request before it
  users       \* User collection: function from the ids of the user documents

vars == <<videos, comments, tweets, playlists, likes, subs, media, nextId, reqs,
          last, prev, users>>
docs == <<videos, comments, tweets, playlists, media, users>>

\* a User document; password and refreshToken are the fields no response may
\* carry.  No handler of these controllers writes the User collection.
UserDoc(u, secret) ==
  [id |-> u, username |-> u, fullName |-> u, email |-> u, avatar |-> u,
   password |-> secret, refreshToken |-> secret]

\* ------------------------------------------------------ toggle: primitives
LikeOps == {"toggleVideoLike", "toggleCommentLike", "toggleTweetLike"}
ToggleOps == LikeOps \cup {"toggleSubscription"}

\* faulty variant of TargetExists: the existence precheck is skipped
TargetExistsUnchecked(op, id) == TRUE

\* the collection a Like toggle validates its target against
TargetExists(op, id) ==
  CASE op = "toggleVideoLike" -> id \in DOMAIN videos
    [] op = "toggleCommentLike" -> id \in DOMAIN comments
    [] op = "toggleTweetLike" -> id \in DOMAIN tweets
    [] OTHER -> TRUE

NotFoundMessage(op) ==
  CASE op = "toggleVideoLike" -> "Video not found"
    [] op = "toggleCommentLike" -> "Comment not found"
    [] OTHER -> "Tweet not found"

\* faulty variant of LikeMatches: the query forgets the likedBy condition
LikeMatchesAnyUser(ls, op, id, actor) ==
  {x \in ls : CASE op = "toggleVideoLike" -> x.video = id
                 [] op = "toggleCommentLike" -> x.comment = id
                 [] OTHER -> x.tweet = id}

\* the query {video|comment|tweet: id, likedBy: actor} of Like.findOne
LikeMatches(ls, op, id, actor) ==
  {x \in ls : /\ x.likedBy = actor
              /\ CASE op = "toggleVideoLike" -> x.video = id
                   [] op = "toggleCommentLike" -> x.comment = id
                   [] OTHER -> x.tweet = id}

\* faulty variant of NewLike: the video field is set by every Like toggle
NewLikeWithVideo(op, id, actor, n) ==
  [id |-> n,
   video |-> id,
   comment |-> IF op = "toggleCommentLike" THEN id ELSE Unset,
   tweet |-> IF op = "toggleTweetLike" THEN id ELSE Unset,
   likedBy |-> actor]

\* the document Like.create builds: only the handler's own target field is set
NewLike(op, id, actor, n) ==
  [id |-> n,
   video |-> IF op = "toggleVideoLike" THEN id ELSE Unset,
   comment |-> IF op = "toggleCommentLike" THEN id ELSE Unset,
   tweet |-> IF op = "toggleTweetLike" THEN id ELSE Unset,
   likedBy |-> actor]

\* the query {$and: [{subscriber}, {channel}]} of Subscription.deleteOne
SubMatches(ss, channel, actor) ==
  {x \in ss : x.subscriber = actor /\ x.channel = channel}

NewSubscription(channel, actor, n) ==
  [id |-> n, subscriber |-> actor, channel |-> channel]

\* faulty variant of FindOne: the lookup never finds the existing row
FindOneNever(matches) == {{}}

\* findOne: null (the empty set) when nothing matches, else one matching row;
\* without a sort the store may return any of several matching rows
FindOne(matches) ==
  IF matches = {} THEN {{}} ELSE {{x} : x \in matches}

\* ------------------------------------------------------- toggle: requests
InFlight == {i \in 1..Len(reqs) : reqs[i].pc # "done"}

TargetsOf(op) ==
  CASE op = "toggleVideoLike" -> {"v1", "v4"}
    [] op = "toggleCommentLike" -> CommentIds
    [] op = "toggleTweetLike" -> TweetIds
    [] OTHER -> Users

\* a request is received: req.params and req.user are bound
Receive(op, actor, id) ==
  /\ reqs' = Append(reqs,
       [op |-> op, actor |-> actor, target |-> id,
        pc |-> IF op = "toggleSubscription" THEN "deleteOne" ELSE "findById",
        found |-> {}, status |-> 0, message |-> "", data |-> {},
        likes0 |-> likes, subs0 |-> subs, likes1 |-> {}, subs1 |-> {}])
  /\ UNCHANGED <<docs, likes, subs, nextId, last, prev>>

Respond(i, status, message, data, ls, ss) ==
  reqs' = [reqs EXCEPT ![i].pc = "done", ![i].status = status,
                       ![i].message = message, ![i].data = data,
                       ![i].likes1 = ls, ![i].subs1 = ss]

\* await Video.findById / Comment.findById / Tweet.findById, and the 404
LikeFindById(i) ==
  /\ reqs[i].pc = "findById"
  /\ IF TargetExists(reqs[i].op, reqs[i].target)
     THEN reqs' = [reqs EXCEPT ![i].pc = "findOne"]
     ELSE Respond(i, 404, NotFoundMessage(reqs[i].op), {}, likes, subs)
  /\ UNCHANGED <<docs, likes, subs, nextId, last, prev>>

\* await Like.findOne({target, likedBy})
LikeFindOne(i) ==
  /\ reqs[i].pc = "findOne"
  /\ \E f \in FindOne(LikeMatches(likes, reqs[i].op, reqs[i].target, reqs[i].actor)) :
       reqs' = [reqs EXCEPT ![i].pc = "write", ![i].found = f]
  /\ UNCHANGED <<docs, likes, subs, nextId, last, prev>>

\* faulty variant of LikeRemove: every row of the pair is deleted
LikeRemoveAll(i) ==
  /\ reqs[i].pc = "write"
  /\ reqs[i].found # {}
  /\ LET deleted == LikeMatches(likes, reqs[i].op, reqs[i].target, reqs[i].actor)
     IN /\ likes' = likes \ deleted
        /\ Respond(i, 200, "Like removed successfully", deleted, likes \ deleted, subs)
  /\ UNCHANGED <<docs, subs, nextId, last, prev>>

\* await Like.findByIdAndDelete(existing._id) and the 200 response
LikeRemove(i) ==
  /\ reqs[i].pc = "write"
  /\ reqs[i].found # {}
  /\ LET deleted == {x \in likes : \E f \in reqs[i].found : x.id = f.id}
     IN /\ likes' = likes \ deleted
        /\ Respond(i, 200, "Like removed successfully", deleted, likes \ deleted, subs)
  /\ UNCHANGED <<docs, subs, nextId, last, prev>>

\* faulty variant of LikeAdd: the created row is answered with 200 instead of 201
LikeAddStatus200(i) ==
  /\ reqs[i].pc = "write"
  /\ reqs[i].found = {}
  /\ LET row == NewLike(reqs[i].op, reqs[i].target, reqs[i].actor, nextId)
     IN /\ likes' = likes \cup {row}
        /\ Respond(i, 200, "Like added successfully", {row}, likes \cup {row}, subs)
  /\ nextId' = nextId + 1
  /\ UNCHANGED <<docs, subs, last, prev>>

\* await Like.create({target, likedBy}) and the 201 response
LikeAdd(i) ==
  /\ reqs[i].pc = "write"
  /\ reqs[i].found = {}
  /\ LET row == NewLike(reqs[i].op, reqs[i].target, reqs[i].actor, nextId)
     IN /\ likes' = likes \cup {row}
        /\ Respond(i, 201, "Like added successfully", {row}, likes \cup {row}, subs)
  /\ nextId' = nextId + 1
  /\ UNCHANGED <<docs, subs, last, prev>>

LikeStep(i, op) ==
  /\ reqs[i].op = op
  /\ \/ LikeFindById(i)
     \/ LikeFindOne(i)
     \/ LikeRemove(i)
     \/ LikeAdd(i)

toggleVideoLike == \E i \in InFlight : LikeStep(i, "toggleVideoLike")
toggleCommentLike == \E i \in InFlight : LikeStep(i, "toggleCommentLike")
toggleTweetLike == \E i \in InFlight : LikeStep(i, "toggleTweetLike")

\* await Subscription.deleteOne(...): removes one matching row when there is one;
\* deletedCount === 1 ends the request with "User Unsubscribed"
SubDeleteOne(i) ==
  /\ reqs[i].pc = "deleteOne"
  /\ \E f \in FindOne(SubMatches(subs, reqs[i].target, reqs[i].actor)) :
       /\ subs' = subs \ f
       /\ IF f # {}
          THEN Respond(i, 200, "User Unsubscribed", {}, likes, subs \ f)
          ELSE reqs' = [reqs EXCEPT ![i].pc = "create"]
  /\ UNCHANGED <<docs, likes, nextId, last, prev>>

\* await Subscription.create(newSubscription) and "User Subscribed"
SubCreate(i) ==
  /\ reqs[i].pc = "create"
  /\ LET row == NewSubscription(reqs[i].target, reqs[i].actor, nextId)
     IN /\ subs' = subs \cup {row}
        /\ Respond(i, 200, "User Subscribed", {}, likes, subs \cup {row})
  /\ nextId' = nextId + 1
  /\ UNCHANGED <<docs, likes, last, prev>>

toggleSubscription ==
  \E i \in InFlight :
    /\ reqs[i].op = "toggleSubscription"
    /\ (SubDeleteOne(i) \/ SubCreate(i))

\* a new request arrives only after the previous one has responded
ReceiveSeq ==
  /\ InFlight = {}
  /\ Len(reqs) < MaxSeqReqs
  /\ \E op \in ToggleOps : \E actor \in Users : \E id \in TargetsOf(op) :
       Receive(op, actor, id)

\* a new request may arrive while others are being handled
ReceiveAny ==
  /\ Len(reqs) < MaxRaceReqs
  /\ \E op \in ToggleOps : \E actor \in Users : \E id \in TargetsOf(op) :
       Receive(op, actor, id)

NoResponse == [op |-> "", status |-> 0]

\* the store the toggle requests run against: v1, c1, t1 exist, v2, c2, t2 do not
InitToggle ==
  /\ videos = [v \in {"v1"} |-> [owner |-> "u1", isPublished |-> TRUE, title |-> "a",
                                description |-> "a", thumbnail |-> 1, videoFile |-> 2]]
  /\ comments = [c \in {"c1"} |-> [owner |-> "u1", video |-> "v1", content |-> "a"]]
  /\ tweets = [t \in {"t1"} |-> [owner |-> "u1", content |-> "a"]]
  /\ playlists = <<>>
  /\ media = {1, 2}
  /\ likes = {}
  /\ subs = {}
  /\ nextId = 3
  /\ reqs = <<>>
  /\ last = NoResponse
  /\ prev = NoResponse
  /\ users = [u \in Users |-> UserDoc(u, "s")]

ToggleSteps ==
  \/ toggleVideoLike
  \/ toggleCommentLike
  \/ toggleTweetLike
  \/ toggleSubscription

NextToggle == ReceiveSeq \/ ToggleSteps
NextRace == ReceiveAny \/ ToggleSteps

SpecToggle == InitToggle /\ [][NextToggle]_vars
SpecRace == InitToggle /\ [][NextRace]_vars

\* the same store after u1 liked v1: the toggles that interleave find a row
InitLiked ==
  /\ videos = [v \in {"v1"} |-> [owner |-> "u1", isPublished |-> TRUE, title |-> "a",
                                description |-> "a", thumbnail |-> 1, videoFile |-> 2]]
  /\ comments = [c \in {"c1"} |-> [owner |-> "u1", video |-> "v1", content |-> "a"]]
  /\ tweets = [t \in {"t1"} |-> [owner |-> "u1", content |-> "a"]]
  /\ playlists = <<>>
  /\ media = {1, 2}
  /\ likes = {NewLike("toggleVideoLike", "v1", "u1", 3)}
  /\ subs = {}
  /\ nextId = 4
  /\ reqs = <<>>
  /\ last = NoResponse
  /\ prev = NoResponse
  /\ users = [u \in Users |-> UserDoc(u, "s")]

SpecLikedRace == InitLiked /\ [][NextRace]_vars

\* most rows of one pair in the store the toggles start from
MaxDuplicates == 3

\* the same store after interleaved toggles left several rows for one pair:
\* u1's Like of v1 and u1's Subscription to u2
InitDuplicates ==
  /\ videos = [v \in {"v1"} |-> [owner |-> "u1", isPublished |-> TRUE, title |-> "a",
                                description |-> "a", thumbnail |-> 1, videoFile |-> 2]]
  /\ comments = [c \in {"c1"} |-> [owner |-> "u1", video |-> "v1", content |-> "a"]]
  /\ tweets = [t \in {"t1"} |-> [owner |-> "u1", content |-> "a"]]
  /\ playlists = <<>>
  /\ media = {1, 2}
  /\ \E k \in 2..MaxDuplicates :
       /\ likes = {NewLike("toggleVideoLike", "v1", "u1", n) : n \in 11..(10 + k)}
       /\ subs = {NewSubscription("u2", "u1", n) : n \in 21..(20 + k)}
  /\ nextId = 31
  /\ reqs = <<>>
  /\ last = NoResponse
  /\ prev = NoResponse
  /\ users = [u \in Users |-> UserDoc(u, "s")]

SpecDuplicates == InitDuplicates /\ [][NextToggle]_vars

\* ------------------------------------------------ owner-guarded handlers
\* strings of a request body: missing / empty, or a new value
Texts == {"", "b"}

Snapshot ==
  [videos |-> videos, comments |-> comments, tweets |-> tweets,
   playlists |-> playlists, media |-> media, likes |-> likes, subs |-> subs,
   users |-> users]

\* the request (params, body, user) and the ApiResponse / ApiError it ends with;
\* pre is the store the request found
Reply(op, actor, id, video, text, text2, r) ==
  last' = [op |-> op, actor |-> actor, id |-> id, video |-> video, text |-> text,
           text2 |-> text2, status |-> r[1], message |-> r[2], pre |-> Snapshot]

\* faulty variant of IsOwner: the ownership check lets everybody through
IsOwnerAnybody(doc, actor) == TRUE

\* doc.owner.equals(req.user?._id)
IsOwner(doc, actor) == doc.owner = actor

\* ---- comment.controller.js
updateComment(actor, id, comment) ==
  LET r == IF comment = "" THEN <<400, "Comment Is Required">>
           ELSE IF id \notin DOMAIN comments
             THEN <<404, "Invalid Comment ID, Comment not found">>
           ELSE IF ~IsOwner(comments[id], actor)
             THEN <<403, "You are unauthorized to update this comment">>
           ELSE <<200, "Comment Updated Successfully">>
  IN /\ comments' = IF r[1] = 200 THEN [comments EXCEPT ![id].content = comment]
                    ELSE comments
     /\ Reply("updateComment", actor, id, "", comment, "", r)
     /\ UNCHANGED <<videos, tweets, playlists, media, likes, subs, nextId, reqs, users>>

\* faulty variant of deleteComment: an id with no document is answered like a foreign one
deleteCommentForbidsMissing(actor, id) ==
  LET r == IF id \notin DOMAIN comments
             THEN <<403, "You are unauthorized to delete this comment">>
           ELSE IF ~IsOwner(comments[id], actor)
             THEN <<403, "You are unauthorized to delete this comment">>
           ELSE <<200, "Comment Deleted Successfully">>
  IN /\ comments' = IF r[1] = 200 THEN [c \in DOMAIN comments \ {id} |-> comments[c]]
                    ELSE comments
     /\ Reply("deleteComment", actor, id, "", "", "", r)
     /\ UNCHANGED <<videos, tweets, playlists, media, likes, subs, nextId, reqs, users>>

deleteComment(actor, id) ==
  LET r == IF id \notin DOMAIN comments
             THEN <<404, "Invalid Comment ID, Comment not found">>
           ELSE IF ~IsOwner(comments[id], actor)
             THEN <<403, "You are unauthorized to delete this comment">>
           ELSE <<200, "Comment Deleted Successfully">>
  IN /\ comments' = IF r[1] = 200 THEN [c \in DOMAIN comments \ {id} |-> comments[c]]
                    ELSE comments
     /\ Reply("deleteComment", actor, id, "", "", "", r)
     /\ UNCHANGED <<videos, tweets, playlists, media, likes, subs, nextId, reqs, users>>

\* ---- tweet controller
updateTweet(actor, id, content) ==
  LET r == IF content = "" THEN <<400, "Content is required">>
           ELSE IF id \notin DOMAIN tweets THEN <<404, "Tweet not found, Invalid tweet id">>
           ELSE IF ~IsOwner(tweets[id], actor)
             THEN <<403, "You are unauthorized to update this tweet">>
           ELSE <<200, "Tweet updated successfully">>
  IN /\ tweets' = IF r[1] = 200 THEN [tweets EXCEPT ![id].content = content] ELSE tweets
     /\ Reply("updateTweet", actor, id, "", content, "", r)
     /\ UNCHANGED <<videos, comments, playlists, media, likes, subs, nextId, reqs, users>>

deleteTweet(actor, id) ==
  LET r == IF id \notin DOMAIN tweets THEN <<404, "Tweet not found, Invalid tweet id">>
           ELSE IF ~IsOwner(tweets[id], actor)
             THEN <<403, "You are unauthorized to update this tweet">>
           ELSE <<200, "Tweet deleted successfully">>
  IN /\ tweets' = IF r[1] = 200 THEN [t \in DOMAIN tweets \ {id} |-> tweets[t]] ELSE tweets
     /\ Reply("deleteTweet", actor, id, "", "", "", r)
     /\ UNCHANGED <<videos, comments, playlists, media, likes, subs, nextId, reqs, users>>

\* ---- playlist controller
\* playlist.videos.includes(videoId) (the Mongoose array compares ids by value)
Includes(vs, v) == \E i \in 1..Len(vs) : vs[i] = v

\* playlist.videos.findIndex(video => video.equals(videoId)): the first position
\* holding v, 0 standing for -1
FindIndex(vs, v) ==
  IF Includes(vs, v) THEN CHOOSE i \in 1..Len(vs) : vs[i] = v /\ \A j \in 1..(i - 1) : vs[j] # v
  ELSE 0

\* faulty variant of Push: the video is put at the front of the playlist
Unshift(vs, v) == <<v>> \o vs

\* playlist.videos.push(id)
Push(vs, v) == Append(vs, v)

\* playlist.videos.splice(i, 1)
Splice(vs, i) == SubSeq(vs, 1, i - 1) \o SubSeq(vs, i + 1, Len(vs))

\* faulty variant of addVideoToPlaylist: the membership check is left out
addVideoToPlaylistUnchecked(actor, id, video) ==
  LET r == IF id \notin DOMAIN playlists THEN <<404, "Playlist not found">>
           ELSE IF ~IsOwner(playlists[id], actor)
             THEN <<403, "You are unauthorized to edit the playlist">>
           ELSE IF video \notin DOMAIN videos THEN <<404, "Video Not Found">>
           ELSE <<200, "Video Added To Playlist">>
  IN /\ playlists' = IF r[1] = 200
                     THEN [playlists EXCEPT ![id].videos = Push(@, video)]
                     ELSE playlists
     /\ Reply("addVideoToPlaylist", actor, id, video, "", "", r)
     /\ UNCHANGED <<videos, comments, tweets, media, likes, subs, nextId, reqs, users>>

addVideoToPlaylist(actor, id, video) ==
  LET r == IF id \notin DOMAIN playlists THEN <<404, "Playlist not found">>
           ELSE IF ~IsOwner(playlists[id], actor)
             THEN <<403, "You are unauthorized to edit the playlist">>
           ELSE IF video \notin DOMAIN videos THEN <<404, "Video Not Found">>
           ELSE IF Includes(playlists[id].videos, video)
             THEN <<400, "Video is already a part of the playlist">>
           ELSE <<200, "Video Added To Playlist">>
  IN /\ playlists' = IF r[1] = 200
                     THEN [playlists EXCEPT ![id].videos = Push(@, video)]
                     ELSE playlists
     /\ Reply("addVideoToPlaylist", actor, id, video, "", "", r)
     /\ UNCHANGED <<videos, comments, tweets, media, likes, subs, nextId, reqs, users>>

removeVideoFromPlaylist(actor, id, video) ==
  LET r == IF id \notin DOMAIN playlists THEN <<404, "Playlist not found">>
           ELSE IF ~IsOwner(playlists[id], actor)
             THEN <<403, "You are unauthorized to edit the playlist">>
           ELSE IF video \notin DOMAIN videos THEN <<404, "Video not found">>
           ELSE IF FindIndex(playlists[id].videos, video) = 0
             THEN <<400, "Video is not in the playlist">>
           ELSE <<200, "Video removed from playlist">>
  IN /\ playlists' = IF r[1] = 200
                     THEN [playlists EXCEPT ![id].videos = Splice(@, FindIndex(@, video))]
                     ELSE playlists
     /\ Reply("removeVideoFromPlaylist", actor, id, video, "", "", r)
     /\ UNCHANGED <<videos, comments, tweets, media, likes, subs, nextId, reqs, users>>

deletePlaylist(actor, id) ==
  LET r == IF id \notin DOMAIN playlists THEN <<404, "Playlist not found">>
           ELSE IF ~IsOwner(playlists[id], actor)
             THEN <<403, "You are unauthorized to edit the playlist">>
           ELSE <<200, "Playlist deleted successfully">>
  IN /\ playlists' = IF r[1] = 200 THEN [q \in DOMAIN playlists \ {id} |-> playlists[q]]
                     ELSE playlists
     /\ Reply("deletePlaylist", actor, id, "", "", "", r)
     /\ UNCHANGED <<videos, comments, tweets, media, likes, subs, nextId, reqs, users>>

updatePlaylist(actor, id, name, description) ==
  LET r == IF name = "" \/ description = ""
             THEN <<400, "Name and description are required">>
           ELSE IF id \notin DOMAIN playlists THEN <<404, "Playlist not found">>
           ELSE IF ~IsOwner(playlists[id], actor)
             THEN <<403, "You are unauthorized to edit the playlist">>
           ELSE <<200, "Playlist updated successfully">>
  IN /\ playlists' = IF r[1] = 200
                     THEN [playlists EXCEPT ![id].name = name, ![id].description = description]
                     ELSE playlists
     /\ Reply("updatePlaylist", actor, id, "", name, description, r)
     /\ UNCHANGED <<videos, comments, tweets, media, likes, subs, nextId, reqs, users>>

\* ---- media store (utils/cloudinary.js)
\* uploadOnCloudinary, when it succeeds: the media store holds a new asset
UploadOnCloudinary(m, asset) == m \cup {asset}

\* deleteFromCloudinary: the asset is destroyed when the call answers "ok";
\* any failure is swallowed (returns false) and leaves the asset
DeleteFromCloudinary(m, asset, ok) == IF ok THEN m \ {asset} ELSE m

\* longest URL, in characters, a stored media reference is drawn from
MaxUrlLen == 2

\* the characters of a URL that matter to the parsing: "/", "." and any other
Chars == {"a", "/", "."}

\* the references a document may hold; the empty one stands for a missing
\* (undefined or empty) URL
Urls == UNION {[1..n -> Chars] : n \in 0..MaxUrlLen}

\* what cloudinary.uploader.destroy does: it answers "ok", answers another
\* result, or throws
Responses == {"ok", "not found", "throws"}

\* cloudinaryUrl.split("/"), last element
LastElement(url) ==
  LET slashes == {k \in 1..Len(url) : url[k] = "/"}
      from == IF slashes = {} THEN 1
              ELSE (CHOOSE k \in slashes : \A j \in slashes : j <= k) + 1
  IN SubSeq(url, from, Len(url))

\* lastElement.split(".")[0]
ExtractPublicIdFromUrl(url) ==
  LET last1 == LastElement(url)
      dots == {k \in 1..Len(last1) : last1[k] = "."}
      to == IF dots = {} THEN Len(last1)
            ELSE (CHOOSE k \in dots : \A j \in dots : k <= j) - 1
  IN SubSeq(last1, 1, to)

\* faulty variant of deleteFromCloudinary: the public id is not checked
deleteFromCloudinaryAnyId(url, response) ==
  IF url = <<>> THEN FALSE
  ELSE response = "ok"

\* what deleteFromCloudinary returns; the whole body is inside try / catch
deleteFromCloudinary(url, response) ==
  IF url = <<>> THEN FALSE
  ELSE IF ExtractPublicIdFromUrl(url) = <<>> THEN FALSE
  ELSE IF response = "throws" THEN FALSE
  ELSE response = "ok"

\* ---- video controller
\* upper end of the asset numbers handed out to uploads
MaxAssetId == 4

\* file: a thumbnail file came with the request; uploadOk / deleteOk: whether the
\* media store accepts the upload / the delete
updateVideo(actor, id, title, description, file, uploadOk, deleteOk) ==
  LET r == IF title = "" \/ description = ""
             THEN <<400, "Title and description are required">>
           ELSE IF id \notin DOMAIN videos THEN <<404, "Video not found">>
           ELSE IF file /\ ~uploadOk
             THEN <<500, "Error while uploading thumbnail to cloudinary">>
           ELSE <<200, "Video Updated Successfully">>
      uploaded == r[1] = 200 /\ file
  IN /\ uploaded => nextId < MaxAssetId
     /\ media' = IF uploaded
                 THEN DeleteFromCloudinary(UploadOnCloudinary(media, nextId),
                                           videos[id].thumbnail, deleteOk)
                 ELSE media
     /\ nextId' = IF uploaded THEN nextId + 1 ELSE nextId
     /\ videos' = IF r[1] = 200
                  THEN [videos EXCEPT ![id].title = title,
                                      ![id].description = description,
                                      ![id].thumbnail = IF file THEN nextId ELSE @]
                  ELSE videos
     /\ Reply("updateVideo", actor, id, "", title, description, r)
     /\ UNCHANGED <<comments, tweets, playlists, likes, subs, reqs, users>>

\* faulty variant of deleteVideo: the id is pulled from every playlist as well
deleteVideoFromPlaylistsToo(actor, id, thumbnailOk, videoFileOk) ==
  LET r == IF id \notin DOMAIN videos THEN <<404, "Video not found">>
           ELSE <<200, "Video deleted successfully">>
  IN /\ media' = IF r[1] = 200
                 THEN DeleteFromCloudinary(
                        DeleteFromCloudinary(media, videos[id].thumbnail, thumbnailOk),
                        videos[id].videoFile, videoFileOk)
                 ELSE media
     /\ videos' = IF r[1] = 200 THEN [v \in DOMAIN videos \ {id} |-> videos[v]] ELSE videos
     /\ playlists' = IF r[1] = 200
                     THEN [q \in DOMAIN playlists |->
                             [playlists[q] EXCEPT
                                !.videos = SelectSeq(@, LAMBDA v : v # id)]]
                     ELSE playlists
     /\ Reply("deleteVideo", actor, id, "", "", "", r)
     /\ UNCHANGED <<comments, tweets, likes, subs, nextId, reqs, users>>

deleteVideo(actor, id, thumbnailOk, videoFileOk) ==
  LET r == IF id \notin DOMAIN videos THEN <<404, "Video not found">>
           ELSE <<200, "Video deleted successfully">>
  IN /\ media' = IF r[1] = 200
                 THEN DeleteFromCloudinary(
                        DeleteFromCloudinary(media, videos[id].thumbnail, thumbnailOk),
                        videos[id].videoFile, videoFileOk)
                 ELSE media
     /\ videos' = IF r[1] = 200 THEN [v \in DOMAIN videos \ {id} |-> videos[v]] ELSE videos
     /\ Reply("deleteVideo", actor, id, "", "", "", r)
     /\ UNCHANGED <<comments, tweets, playlists, likes, subs, nextId, reqs, users>>

togglePublishStatus(actor, id) ==
  LET r == IF id \notin DOMAIN videos THEN <<404, "Video Not Found">>
           ELSE IF videos[id].isPublished THEN <<200, "Publish status toggled to false">>
           ELSE <<200, "Publish status toggled to true">>
  IN /\ videos' = IF r[1] = 200 THEN [videos EXCEPT ![id].isPublished = ~@] ELSE videos
     /\ Reply("togglePublishStatus", actor, id, "", "", "", r)
     /\ UNCHANGED <<comments, tweets, playlists, media, likes, subs, nextId, reqs, users>>

\* ---- the owner-guarded handlers against a store holding one document of each
\* kind (v1, c1, t1, p1); v4, c2, t2, p2 are ids without a document
InitOwner ==
  /\ \E o \in Users :
       /\ videos = [v \in {"v1"} |->
                      [owner |-> o, isPublished |-> TRUE, title |-> "a",
                       description |-> "a", thumbnail |-> 1, videoFile |-> 2]]
       /\ comments = [c \in {"c1"} |-> [owner |-> o, video |-> "v1", content |-> "a"]]
       /\ tweets = [t \in {"t1"} |-> [owner |-> o, content |-> "a"]]
       /\ playlists = [q \in {"p1"} |->
                         [owner |-> o, name |-> "a", description |-> "a", videos |-> <<>>]]
  /\ media = {1, 2}
  /\ likes = {}
  /\ subs = {}
  /\ nextId = 3
  /\ reqs = <<>>
  /\ last = NoResponse
  /\ prev = NoResponse
  /\ users = [u \in Users |-> UserDoc(u, "s")]

NextOwner ==
  \/ \E a \in Users, id \in CommentIds, t \in Texts :
       updateComment(a, id, t) /\ UNCHANGED prev
  \/ \E a \in Users, id \in CommentIds : deleteComment(a, id) /\ UNCHANGED prev
  \/ \E a \in Users, id \in TweetIds, t \in Texts :
       updateTweet(a, id, t) /\ UNCHANGED prev
  \/ \E a \in Users, id \in TweetIds : deleteTweet(a, id) /\ UNCHANGED prev
  \/ \E a \in Users, id \in PlaylistIds, v \in {"v1", "v4"} :
       addVideoToPlaylist(a, id, v) /\ UNCHANGED prev
  \/ \E a \in Users, id \in PlaylistIds, v \in {"v1", "v4"} :
       removeVideoFromPlaylist(a, id, v) /\ UNCHANGED prev
  \/ \E a \in Users, id \in PlaylistIds : deletePlaylist(a, id) /\ UNCHANGED prev
  \/ \E a \in Users, id \in PlaylistIds, n \in Texts, d \in Texts :
       updatePlaylist(a, id, n, d) /\ UNCHANGED prev
  \/ \E a \in Users, id \in {"v1", "v4"}, t \in Texts, d \in Texts :
       updateVideo(a, id, t, d, FALSE, TRUE, TRUE) /\ UNCHANGED prev
  \/ \E a \in Users, id \in {"v1", "v4"} :
       deleteVideo(a, id, TRUE, TRUE) /\ UNCHANGED prev

SpecOwner == InitOwner /\ [][NextOwner]_vars

\* ---- the video handlers alone, with every outcome of the media store
NextVideo ==
  \/ \E a \in Users, id \in {"v1", "v4"}, t \in Texts, d \in Texts :
       \E f, u, k \in BOOLEAN :
         /\ ~f => (u /\ k)
         /\ ~u => k
         /\ updateVideo(a, id, t, d, f, u, k)
         /\ UNCHANGED prev
  \/ \E a \in Users, id \in {"v1", "v4"}, k1, k2 \in BOOLEAN :
       deleteVideo(a, id, k1, k2) /\ UNCHANGED prev
  \/ \E a \in Users, id \in {"v1", "v4"} : togglePublishStatus(a, id) /\ UNCHANGED prev

SpecVideo == InitOwner /\ [][NextVideo]_vars

\* ---- the playlist handlers against a store with the videos v1, v2, v3 (v4 has
\* no document) and one empty playlist p1 (p2 has no document)
InitPlaylist ==
  /\ videos = [v \in {"v1", "v2", "v3"} |->
                 [owner |-> "u1", isPublished |-> TRUE, title |-> "a",
                  description |-> "a", thumbnail |-> 1, videoFile |-> 2]]
  /\ comments = <<>>
  /\ tweets = <<>>
  /\ \E o \in Users :
       playlists = [q \in {"p1"} |->
                      [owner |-> o, name |-> "a", description |-> "a", videos |-> <<>>]]
  /\ media = {1, 2}
  /\ likes = {}
  /\ subs = {}
  /\ nextId = 3
  /\ reqs = <<>>
  /\ last = NoResponse
  /\ prev = NoResponse
  /\ users = [u \in Users |-> UserDoc(u, "s")]

NextPlaylist ==
  \/ \E a \in Users, id \in PlaylistIds, v \in VideoIds :
       addVideoToPlaylist(a, id, v) /\ prev' = last
  \/ \E a \in Users, id \in PlaylistIds, v \in VideoIds :
       removeVideoFromPlaylist(a, id, v) /\ prev' = last

SpecPlaylist == InitPlaylist /\ [][NextPlaylist]_vars

\* ---- the playlist handlers while videos are being deleted
NextPlaylistVideos ==
  \/ \E a \in Users, id \in PlaylistIds, v \in VideoIds :
       addVideoToPlaylist(a, id, v) /\ UNCHANGED prev
  \/ \E a \in Users, id \in PlaylistIds, v \in VideoIds :
       removeVideoFromPlaylist(a, id, v) /\ UNCHANGED prev
  \/ \E a \in Users, id \in VideoIds : deleteVideo(a, id, TRUE, TRUE) /\ UNCHANGED prev

SpecPlaylistVideos == InitPlaylist /\ [][NextPlaylistVideos]_vars

\* ------------------------------- playlist handlers, one step per await
\* number of playlist requests issued in a run where requests may interleave
MaxPlaylistReqs == 3

\* a playlist request is received: req.params, req.body and req.user are bound
ReceivePlaylist ==
  /\ Len(reqs) < MaxPlaylistReqs
  /\ \/ \E actor \in Users, name \in Texts, description \in Texts :
          reqs' = Append(reqs,
            [op |-> "createPlaylist", actor |-> actor, id |-> "", video |-> "",
             text |-> name, text2 |-> description, pc |-> "create",
             doc |-> <<>>, status |-> 0, message |-> ""])
     \/ \E op \in {"addVideoToPlaylist", "removeVideoFromPlaylist"} :
        \E actor \in Users, id \in PlaylistIds, video \in {"v1", "v2"} :
          reqs' = Append(reqs,
            [op |-> op, actor |-> actor, id |-> id, video |-> video,
             text |-> "", text2 |-> "", pc |-> "findPlaylist",
             doc |-> <<>>, status |-> 0, message |-> ""])
  /\ UNCHANGED <<docs, likes, subs, nextId, last, prev>>

\* the request ends with an ApiResponse, or with the ApiError it threw
Finish(i, status, message) ==
  reqs' = [reqs EXCEPT ![i].pc = "done", ![i].status = status, ![i].message = message]

\* createPlaylist: validation, await Playlist.create (videos defaults to []) and
\* the 201
createPlaylist ==
  \E i \in InFlight :
    /\ reqs[i].pc = "create"
    /\ IF reqs[i].text = "" \/ reqs[i].text2 = ""
       THEN /\ Finish(i, 400, "Name and description are required")
            /\ UNCHANGED playlists
       ELSE /\ PlaylistIds \ DOMAIN playlists # {}
            /\ LET id == CHOOSE q \in PlaylistIds : q \notin DOMAIN playlists
               IN playlists' = [q \in DOMAIN playlists \cup {id} |->
                                  IF q = id
                                  THEN [owner |-> reqs[i].actor, name |-> reqs[i].text,
                                        description |-> reqs[i].text2, videos |-> <<>>,
                                        version |-> 0]
                                  ELSE playlists[q]]
            /\ Finish(i, 201, "Playlist created successfully")
    /\ UNCHANGED <<videos, comments, tweets, media, users, likes, subs, nextId, last, prev>>

\* await Playlist.findById(playlistId), the 404 and the owner check: the request
\* goes on with its own copy of the document
FindPlaylist(i) ==
  /\ reqs[i].pc = "findPlaylist"
  /\ IF reqs[i].id \notin DOMAIN playlists
     THEN Finish(i, 404, "Playlist not found")
     ELSE IF ~IsOwner(playlists[reqs[i].id], reqs[i].actor)
     THEN Finish(i, 403, "You are unauthorized to edit the playlist")
     ELSE reqs' = [reqs EXCEPT ![i].pc = "findVideo", ![i].doc = playlists[reqs[i].id]]
  /\ UNCHANGED <<docs, likes, subs, nextId, last, prev>>

\* await Video.findById(videoId), the 404, and the membership check, which reads
\* the copy the request loaded
FindVideo(i) ==
  /\ reqs[i].pc = "findVideo"
  /\ IF reqs[i].video \notin DOMAIN videos
     THEN Finish(i, 404, IF reqs[i].op = "addVideoToPlaylist" THEN "Video Not Found"
                         ELSE "Video not found")
     ELSE IF reqs[i].op = "addVideoToPlaylist" /\ Includes(reqs[i].doc.videos, reqs[i].video)
     THEN Finish(i, 400, "Video is already a part of the playlist")
     ELSE IF reqs[i].op = "removeVideoFromPlaylist"
             /\ FindIndex(reqs[i].doc.videos, reqs[i].video) = 0
     THEN Finish(i, 400, "Video is not in the playlist")
     ELSE reqs' = [reqs EXCEPT ![i].pc = "save"]
  /\ UNCHANGED <<docs, likes, subs, nextId, last, prev>>

\* playlist.videos.push(id); await playlist.save(): the document is dirty by a
\* push only, which Mongoose writes as a $push on the stored array (together with
\* an increment of the version key), not as the array the request holds
SavePush(i) ==
  /\ reqs[i].pc = "save"
  /\ reqs[i].op = "addVideoToPlaylist"
  /\ IF reqs[i].id \in DOMAIN playlists
     THEN /\ playlists' = [playlists EXCEPT ![reqs[i].id].videos = Push(@, reqs[i].video),
                                            ![reqs[i].id].version = @ + 1]
          /\ reqs' = [reqs EXCEPT ![i].pc = "aggregate"]
     ELSE /\ Finish(i, 500, "DocumentNotFoundError")
          /\ UNCHANGED playlists
  /\ UNCHANGED <<videos, comments, tweets, media, users, likes, subs, nextId, last, prev>>

\* playlist.videos.splice(index, 1); await playlist.save(): a splice moves array
\* positions, so Mongoose writes the whole array the request holds, on condition
\* that the stored version key is still the one it loaded (else VersionError)
SaveSplice(i) ==
  /\ reqs[i].pc = "save"
  /\ reqs[i].op = "removeVideoFromPlaylist"
  /\ IF /\ reqs[i].id \in DOMAIN playlists
        /\ playlists[reqs[i].id].version = reqs[i].doc.version
     THEN /\ playlists' =
               [playlists EXCEPT
                  ![reqs[i].id].videos =
                     Splice(reqs[i].doc.videos, FindIndex(reqs[i].doc.videos, reqs[i].video)),
                  ![reqs[i].id].version = @ + 1]
          /\ reqs' = [reqs EXCEPT ![i].pc = "aggregate"]
     ELSE /\ Finish(i, 500, "VersionError")
          /\ UNCHANGED playlists
  /\ UNCHANGED <<videos, comments, tweets, media, users, likes, subs, nextId, last, prev>>

\* await Playlist.aggregate(...) and the 200 response
AggregateAndRespond(i) ==
  /\ reqs[i].pc = "aggregate"
  /\ Finish(i, 200, IF reqs[i].op = "addVideoToPlaylist" THEN "Video Added To Playlist"
                    ELSE "Video removed from playlist")
  /\ UNCHANGED <<docs, likes, subs, nextId, last, prev>>

addVideoToPlaylistAwaits ==
  \E i \in InFlight :
    /\ reqs[i].op = "addVideoToPlaylist"
    /\ (FindPlaylist(i) \/ FindVideo(i) \/ SavePush(i) \/ AggregateAndRespond(i))

removeVideoFromPlaylistAwaits ==
  \E i \in InFlight :
    /\ reqs[i].op = "removeVideoFromPlaylist"
    /\ (FindPlaylist(i) \/ FindVideo(i) \/ SaveSplice(i) \/ AggregateAndRespond(i))

\* the store the playlist requests run against: videos v1 and v2, and the empty
\* playlist p1 of u1; p2 is created by the first createPlaylist
InitPlaylistRace ==
  /\ videos = [v \in {"v1", "v2"} |->
                 [owner |-> "u1", isPublished |-> TRUE, title |-> "a",
                  description |-> "a", thumbnail |-> 1, videoFile |-> 2]]
  /\ comments = <<>>
  /\ tweets = <<>>
  /\ playlists = [q \in {"p1"} |->
                    [owner |-> "u1", name |-> "a", description |-> "a",
                     videos |-> <<>>, version |-> 0]]
  /\ media = {1, 2}
  /\ likes = {}
  /\ subs = {}
  /\ nextId = 3
  /\ reqs = <<>>
  /\ last = NoResponse
  /\ prev = NoResponse
  /\ users = [u \in Users |-> UserDoc(u, "s")]

NextPlaylistRace ==
  \/ ReceivePlaylist
  \/ createPlaylist
  \/ addVideoToPlaylistAwaits
  \/ removeVideoFromPlaylistAwaits

SpecPlaylistRace == InitPlaylistRace /\ [][NextPlaylistRace]_vars

\* ------------------------------------ updateVideo, one step per await
\* number of updateVideo requests issued in a run where requests may interleave
MaxThumbnailReqs == 2

\* the mark of an upload that failed: uploadOnCloudinary returned null
NoAsset == 0

\* an updateVideo request is received; file: req.file is set (a thumbnail came
\* with the request); calls: the calls the request made to the media store
ReceiveUpdateVideo ==
  /\ Len(reqs) < MaxThumbnailReqs
  /\ \E id \in {"v1", "v4"}, title \in Texts, description \in Texts, file \in BOOLEAN :
       reqs' = Append(reqs,
         [op |-> "updateVideo", actor |-> "u1", id |-> id, text |-> title,
          text2 |-> description, file |-> file, pc |-> "findVideo", doc |-> <<>>,
          calls |-> <<>>, uploaded |-> NoAsset, status |-> 0, message |-> ""])
  /\ UNCHANGED <<docs, likes, subs, nextId, last, prev>>

\* the title / description check, await Video.findById(videoId) and the 404
FindVideoById(i) ==
  /\ reqs[i].pc = "findVideo"
  /\ IF reqs[i].text = "" \/ reqs[i].text2 = ""
     THEN Finish(i, 400, "Title and description are required")
     ELSE IF reqs[i].id \notin DOMAIN videos
     THEN Finish(i, 404, "Video not found")
     ELSE reqs' = [reqs EXCEPT ![i].doc = videos[reqs[i].id],
                               ![i].pc = IF reqs[i].file THEN "upload" ELSE "save"]
  /\ UNCHANGED <<docs, likes, subs, nextId, last, prev>>

\* faulty variant of UploadThumbnail: a failed upload does not end the request
UploadThumbnailUnchecked(i) ==
  /\ reqs[i].pc = "upload"
  /\ \/ /\ nextId < MaxAssetId
        /\ media' = UploadOnCloudinary(media, nextId)
        /\ nextId' = nextId + 1
        /\ reqs' = [reqs EXCEPT ![i].calls = Append(@, <<"upload", nextId>>),
                                ![i].uploaded = nextId, ![i].pc = "destroy"]
     \/ /\ reqs' = [reqs EXCEPT ![i].calls = Append(@, <<"upload", NoAsset>>),
                                ![i].pc = "destroy"]
        /\ UNCHANGED <<media, nextId>>
  /\ UNCHANGED <<videos, comments, tweets, playlists, users, likes, subs, last, prev>>

\* await uploadOnCloudinary(thumbnailFile.path): the media store holds a new
\* asset, or the upload failed (null) and the request throws the 500
UploadThumbnail(i) ==
  /\ reqs[i].pc = "upload"
  /\ \/ /\ nextId < MaxAssetId
        /\ media' = UploadOnCloudinary(media, nextId)
        /\ nextId' = nextId + 1
        /\ reqs' = [reqs EXCEPT ![i].calls = Append(@, <<"upload", nextId>>),
                                ![i].uploaded = nextId, ![i].pc = "destroy"]
     \/ /\ reqs' = [reqs EXCEPT ![i].calls = Append(@, <<"upload", NoAsset>>),
                                ![i].pc = "done", ![i].status = 500,
                                ![i].message =
                                   "Error while uploading thumbnail to cloudinary"]
        /\ UNCHANGED <<media, nextId>>
  /\ UNCHANGED <<videos, comments, tweets, playlists, users, likes, subs, last, prev>>

\* await deleteFromCloudinary(video.thumbnail), whatever it answers (url: the
\* form of the URL the document holds for the asset), and
\* video.thumbnail = thumbnailOnCloudinary.secure_url on the request's copy
DeleteOldThumbnail(i) ==
  /\ reqs[i].pc = "destroy"
  /\ \E url \in Urls, response \in Responses :
       LET ok == deleteFromCloudinary(url, response)
       IN /\ media' = DeleteFromCloudinary(media, reqs[i].doc.thumbnail, ok)
          /\ reqs' = [reqs EXCEPT
                        ![i].calls = Append(@, <<"destroy", reqs[i].doc.thumbnail, ok>>),
                        ![i].pc = "save"]
  /\ UNCHANGED <<videos, comments, tweets, playlists, users, likes, subs, nextId, last, prev>>

\* a path of the stored document after save(): Mongoose writes a path only when
\* the value assigned differs from the one the request loaded
Saved(stored, loaded, assigned) == IF assigned = loaded THEN stored ELSE assigned

\* the request assigned a new value to some path of its copy
Modified(i) ==
  \/ reqs[i].file
  \/ reqs[i].text # reqs[i].doc.title
  \/ reqs[i].text2 # reqs[i].doc.description

\* video.title = title; video.description = description; await video.save() and
\* the 200; a save with nothing to write does not go to the store, one of a
\* document that is gone fails
SaveVideo(i) ==
  /\ reqs[i].pc = "save"
  /\ IF reqs[i].id \in DOMAIN videos
     THEN /\ videos' =
               [videos EXCEPT
                  ![reqs[i].id].title = Saved(@, reqs[i].doc.title, reqs[i].text),
                  ![reqs[i].id].description =
                     Saved(@, reqs[i].doc.description, reqs[i].text2),
                  ![reqs[i].id].thumbnail =
                     IF reqs[i].file THEN reqs[i].uploaded ELSE @]
          /\ Finish(i, 200, "Video Updated Successfully")
     ELSE IF Modified(i)
     THEN /\ Finish(i, 500, "DocumentNotFoundError")
          /\ UNCHANGED videos
     ELSE /\ Finish(i, 200, "Video Updated Successfully")
          /\ UNCHANGED videos
  /\ UNCHANGED <<comments, tweets, playlists, media, users, likes, subs, nextId, last, prev>>

updateVideoAwaits ==
  \E i \in InFlight :
    \/ FindVideoById(i)
    \/ UploadThumbnail(i)
    \/ DeleteOldThumbnail(i)
    \/ SaveVideo(i)

\* the requests share the store with deleteVideo
NextThumbnail ==
  \/ ReceiveUpdateVideo
  \/ updateVideoAwaits
  \/ \E k1, k2 \in BOOLEAN :
       /\ "v1" \in DOMAIN videos
       /\ deleteVideo("u1", "v1", k1, k2)
       /\ UNCHANGED prev

SpecThumbnail == InitOwner /\ [][NextThumbnail]_vars

\* ------------------------------------ deleteVideo, one step per await
\* a deleteVideo request is received
ReceiveDeleteVideo ==
  /\ Len(reqs) < MaxThumbnailReqs
  /\ \E id \in {"v1", "v4"} :
       reqs' = Append(reqs,
         [op |-> "deleteVideo", actor |-> "u1", id |-> id, text |-> "",
          text2 |-> "", file |-> FALSE, pc |-> "findToDelete", doc |-> <<>>,
          calls |-> <<>>, uploaded |-> NoAsset, status |-> 0, message |-> ""])
  /\ UNCHANGED <<docs, likes, subs, nextId, last, prev>>

\* await Video.findById(videoId) and the 404
FindVideoToDelete(i) ==
  /\ reqs[i].pc = "findToDelete"
  /\ IF reqs[i].id \notin DOMAIN videos
     THEN Finish(i, 404, "Video not found")
     ELSE reqs' = [reqs EXCEPT ![i].doc = videos[reqs[i].id], ![i].pc = "destroyThumbnail"]
  /\ UNCHANGED <<docs, likes, subs, nextId, last, prev>>

\* faulty variant of DestroyAsset: a delete that returned false ends the request
DestroyAssetOrFail(i, pc, asset, then) ==
  /\ reqs[i].pc = pc
  /\ \E url \in Urls, response \in Responses :
       LET ok == deleteFromCloudinary(url, response)
       IN /\ media' = DeleteFromCloudinary(media, asset, ok)
          /\ reqs' = [reqs EXCEPT ![i].calls = Append(@, <<"destroy", asset, ok>>),
                                  ![i].pc = IF ok THEN then ELSE "done",
                                  ![i].status = IF ok THEN 0 ELSE 500]
  /\ UNCHANGED <<videos, comments, tweets, playlists, users, likes, subs, nextId, last, prev>>

\* await deleteFromCloudinary(...) of an asset of the loaded document, whatever
\* it answers (url: the form of the URL the document holds for the asset)
DestroyAsset(i, pc, asset, then) ==
  /\ reqs[i].pc = pc
  /\ \E url \in Urls, response \in Responses :
       LET ok == deleteFromCloudinary(url, response)
       IN /\ media' = DeleteFromCloudinary(media, asset, ok)
          /\ reqs' = [reqs EXCEPT ![i].calls = Append(@, <<"destroy", asset, ok>>),
                                  ![i].pc = then]
  /\ UNCHANGED <<videos, comments, tweets, playlists, users, likes, subs, nextId, last, prev>>

\* await deleteFromCloudinary(video.thumbnail)
DestroyThumbnail(i) ==
  DestroyAsset(i, "destroyThumbnail", reqs[i].doc.thumbnail, "destroyVideoFile")

\* await deleteFromCloudinary(video.videoFile, "video")
DestroyVideoFile(i) ==
  DestroyAsset(i, "destroyVideoFile", reqs[i].doc.videoFile, "findByIdAndDelete")

\* await Video.findByIdAndDelete(videoId), which answers null for a document
\* that is gone, and the 200
FindByIdAndDelete(i) ==
  /\ reqs[i].pc = "findByIdAndDelete"
  /\ videos' = [v \in DOMAIN videos \ {reqs[i].id} |-> videos[v]]
  /\ reqs' = [reqs EXCEPT ![i].calls = Append(@, <<"delete", reqs[i].id>>),
                          ![i].pc = "done", ![i].status = 200,
                          ![i].message = "Video deleted successfully"]
  /\ UNCHANGED <<comments, tweets, playlists, media, users, likes, subs, nextId, last, prev>>

deleteVideoAwaits ==
  \E i \in InFlight :
    \/ FindVideoToDelete(i)
    \/ DestroyThumbnail(i)
    \/ DestroyVideoFile(i)
    \/ FindByIdAndDelete(i)

\* updateVideo and deleteVideo requests on the same store
NextMediaDelete ==
  \/ ReceiveUpdateVideo
  \/ updateVideoAwaits
  \/ ReceiveDeleteVideo
  \/ deleteVideoAwaits

SpecMediaDelete == InitOwner /\ [][NextMediaDelete]_vars

\* ---------------------------------- publishAVideo, one step per await
\* number of publishAVideo requests issued in a run where requests may interleave
MaxPublishReqs == 2

\* req.files of a publishAVideo request: a file is missing, the video file is
\* not a video, the thumbnail is not an image, or both are as required
Uploads == {"missing", "notVideo", "notImage", "valid"}

\* a publishAVideo request is received
ReceivePublish ==
  /\ Len(reqs) < MaxPublishReqs
  /\ \E actor \in Users, title \in Texts, description \in Texts, files \in Uploads :
       reqs' = Append(reqs,
         [op |-> "publishAVideo", actor |-> actor, id |-> "", text |-> title,
          text2 |-> description, files |-> files, pc |-> "uploadVideo",
          videoFile |-> NoAsset, thumbnail |-> NoAsset, calls |-> <<>>,
          status |-> 0, message |-> ""])
  /\ UNCHANGED <<docs, likes, subs, nextId, last, prev>>

\* the request logs a call and ends with an ApiError
Throw(i, call, status, message) ==
  reqs' = [reqs EXCEPT ![i].calls = Append(@, call), ![i].pc = "done",
                       ![i].status = status, ![i].message = message]

\* the checks of the body and the files, then await uploadOnCloudinary /
\* uploadLargeFilesOnCloudinary of the video file (both answer the asset, or
\* null) and the 500 on null
UploadVideoFile(i) ==
  /\ reqs[i].pc = "uploadVideo"
  /\ IF reqs[i].text = "" \/ reqs[i].text2 = ""
     THEN Finish(i, 400, "Title and description are required")
          /\ UNCHANGED <<media, nextId>>
     ELSE IF reqs[i].files = "missing"
     THEN Finish(i, 400, "Video File And Thumbnail are Required")
          /\ UNCHANGED <<media, nextId>>
     ELSE IF reqs[i].files = "notVideo"
     THEN Finish(i, 400, "Invalid video file format") /\ UNCHANGED <<media, nextId>>
     ELSE IF reqs[i].files = "notImage"
     THEN Finish(i, 400, "Invalid thumbnail file format") /\ UNCHANGED <<media, nextId>>
     ELSE \/ /\ nextId <= MaxAssetId
             /\ media' = UploadOnCloudinary(media, nextId)
             /\ nextId' = nextId + 1
             /\ reqs' = [reqs EXCEPT ![i].calls = Append(@, <<"uploadVideo", nextId>>),
                                     ![i].videoFile = nextId,
                                     ![i].pc = "uploadThumbnail"]
          \/ /\ Throw(i, <<"uploadVideo", NoAsset>>, 500, "Error while uploading video")
             /\ UNCHANGED <<media, nextId>>
  /\ UNCHANGED <<videos, comments, tweets, playlists, users, likes, subs, last, prev>>

\* faulty variant of UploadThumbnailFile: a failed thumbnail upload throws
\* without the delete of the uploaded video
UploadThumbnailFileNoCleanup(i) ==
  /\ reqs[i].pc = "uploadThumbnail"
  /\ \/ /\ nextId <= MaxAssetId
        /\ media' = UploadOnCloudinary(media, nextId)
        /\ nextId' = nextId + 1
        /\ reqs' = [reqs EXCEPT ![i].calls = Append(@, <<"uploadThumbnail", nextId>>),
                                ![i].thumbnail = nextId, ![i].pc = "create"]
     \/ /\ Throw(i, <<"uploadThumbnail", NoAsset>>, 500, "Error while uploading thumbnail")
        /\ UNCHANGED <<media, nextId>>
  /\ UNCHANGED <<videos, comments, tweets, playlists, users, likes, subs, last, prev>>

\* await uploadOnCloudinary(thumbnailLocalPath): the asset, or null, on which
\* the request goes on to delete the uploaded video
UploadThumbnailFile(i) ==
  /\ reqs[i].pc = "uploadThumbnail"
  /\ \/ /\ nextId <= MaxAssetId
        /\ media' = UploadOnCloudinary(media, nextId)
        /\ nextId' = nextId + 1
        /\ reqs' = [reqs EXCEPT ![i].calls = Append(@, <<"uploadThumbnail", nextId>>),
                                ![i].thumbnail = nextId, ![i].pc = "create"]
     \/ /\ reqs' = [reqs EXCEPT ![i].calls = Append(@, <<"uploadThumbnail", NoAsset>>),
                                ![i].pc = "deleteVideoFile"]
        /\ UNCHANGED <<media, nextId>>
  /\ UNCHANGED <<videos, comments, tweets, playlists, users, likes, subs, last, prev>>

\* await deleteFromCloudinary(videoOnCloudinary.url), whatever it answers, and
\* the 500
DeleteUploadedVideo(i) ==
  /\ reqs[i].pc = "deleteVideoFile"
  /\ \E url \in Urls, response \in Responses :
       LET ok == deleteFromCloudinary(url, response)
       IN /\ media' = DeleteFromCloudinary(media, reqs[i].videoFile, ok)
          /\ Throw(i, <<"destroy", reqs[i].videoFile, ok>>, 500,
                   "Error while uploading thumbnail")
  /\ UNCHANGED <<videos, comments, tweets, playlists, users, likes, subs, nextId, last, prev>>

\* await Video.create(newVideo) and the 201; isPublished takes the schema's
\* default
CreateVideo(i) ==
  /\ reqs[i].pc = "create"
  /\ VideoIds \ DOMAIN videos # {}
  /\ LET id == CHOOSE v \in VideoIds : v \notin DOMAIN videos
     IN /\ videos' = [v \in DOMAIN videos \cup {id} |->
                        IF v = id
                        THEN [owner |-> reqs[i].actor, isPublished |-> TRUE,
                              title |-> reqs[i].text, description |-> reqs[i].text2,
                              thumbnail |-> reqs[i].thumbnail,
                              videoFile |-> reqs[i].videoFile]
                        ELSE videos[v]]
        /\ reqs' = [reqs EXCEPT ![i].calls = Append(@, <<"create", id>>),
                                ![i].id = id, ![i].pc = "done", ![i].status = 201,
                                ![i].message = "Video Published Successfully"]
  /\ UNCHANGED <<comments, tweets, playlists, media, users, likes, subs, nextId, last, prev>>

publishAVideo ==
  \E i \in InFlight :
    \/ UploadVideoFile(i)
    \/ UploadThumbnailFile(i)
    \/ DeleteUploadedVideo(i)
    \/ CreateVideo(i)

\* a store without videos and a media store without assets
InitPublish ==
  /\ videos = <<>>
  /\ comments = <<>>
  /\ tweets = <<>>
  /\ playlists = <<>>
  /\ media = {}
  /\ likes = {}
  /\ subs = {}
  /\ nextId = 1
  /\ reqs = <<>>
  /\ last = NoResponse
  /\ prev = NoResponse
  /\ users = [u \in Users |-> UserDoc(u, "s")]

NextPublish == ReceivePublish \/ publishAVideo

SpecPublish == InitPublish /\ [][NextPublish]_vars

\* ------------------------------------------------------- composed views
\* the value of a field a pipeline stage left out ($first of an empty array)
Missing == [missing |-> TRUE]

\* {$first: "$field"} on the array a $lookup produced
First(docs1) == IF Len(docs1) = 0 THEN Missing ELSE docs1[1]

\* faulty variant of UserProject: the $project stage is left out of the lookup
UserWhole(doc) == doc

\* the $project {username: 1, fullName: 1, email: 1, avatar: 1} of every user
\* lookup; _id stays as $project keeps it by default
UserProject(doc) ==
  [id |-> doc.id, username |-> doc.username, fullName |-> doc.fullName,
   email |-> doc.email, avatar |-> doc.avatar]

\* $lookup from users by _id with the projecting sub-pipeline
LookupUser(us, id) ==
  IF id \in DOMAIN us THEN <<UserProject(us[id])>> ELSE <<>>

\* $lookup from videos by _id with the sub-pipeline that inlines the owner
LookupVideo(vs, us, id) ==
  IF id \in DOMAIN vs
  THEN <<[id |-> id, title |-> vs[id].title, description |-> vs[id].description,
          isPublished |-> vs[id].isPublished, thumbnail |-> vs[id].thumbnail,
          videoFile |-> vs[id].videoFile,
          owner |-> First(LookupUser(us, vs[id].owner))]>>
  ELSE <<>>

\* $unwind {path: "$videos", preserveNullAndEmptyArrays: true}: one document per
\* element, in array order; an empty array gives one document without the field.
\* The field of a document is a sequence: <<value>>, or <<>> when it is not there
Unwind(ids) == IF Len(ids) = 0 THEN << <<>> >> ELSE [k \in 1..Len(ids) |-> <<ids[k]>>]

\* faulty variant of GroupPush: the accumulated array comes out in reverse order
GroupPushReversed(values) ==
  LET kept == SelectSeq(values, LAMBDA x : x # Missing)
  IN [k \in 1..Len(kept) |-> kept[Len(kept) + 1 - k]]

\* $group {videos: {$push: "$videos"}}: the values of the group's documents in
\* the order they arrive; a document without the field adds nothing
GroupPush(values) == SelectSeq(values, LAMBDA x : x # Missing)

\* getPlaylistAggregationPipeline run on one matching playlist
PlaylistView(ps, vs, us, q) ==
  LET unwound == Unwind(ps[q].videos)
      looked == [k \in 1..Len(unwound) |->
                   IF unwound[k] = <<>> THEN Missing
                   ELSE First(LookupVideo(vs, us, unwound[k][1]))]
  IN [id |-> q, name |-> ps[q].name, description |-> ps[q].description,
      owner |-> First(LookupUser(us, ps[q].owner)),
      videos |-> GroupPush(looked)]

\* Playlist.aggregate(getPlaylistAggregationPipeline({_id})): the documents of the
\* result (no, or one)
PlaylistById(ps, vs, us, id) ==
  {PlaylistView(ps, vs, us, q) : q \in {q \in DOMAIN ps : q = id}}

\* Playlist.aggregate(getPlaylistAggregationPipeline({owner})): the documents of
\* the result; $group gives them in no particular order
PlaylistsOfOwner(ps, vs, us, owner) ==
  {PlaylistView(ps, vs, us, q) : q \in {q \in DOMAIN ps : ps[q].owner = owner}}

\* the data of the ApiResponse the latest request ended with
Body(d) == prev' = [op |-> "body", status |-> 200, data |-> d]

\* a request that reads only, and the ApiResponse it ends with
Read(op, actor, id, message) ==
  /\ Reply(op, actor, id, "", "", "", <<200, message>>)
  /\ UNCHANGED <<docs, likes, subs, nextId, reqs>>

getPlaylistById(actor, id) ==
  /\ Read("getPlaylistById", actor, id, "Playlist fetched successfully")
  /\ Body(PlaylistById(playlists, videos, users, id))

getUserPlaylists(actor, userId) ==
  /\ Read("getUserPlaylists", actor, userId, "Playlist fetched successfully")
  /\ Body(PlaylistsOfOwner(playlists, videos, users, userId))

\* the view a playlist handler answers with after its save: playlist[0] of the
\* aggregate on the playlist id
SavedPlaylist(id) ==
  Body(IF last'.status = 200 THEN PlaylistById(playlists', videos', users', id) ELSE {})

\* ---- the playlist handlers and views while videos are being deleted: v1, v2,
\* v3 exist, p1 is the playlist u1 edits, p2 an empty playlist of either user
InitPlaylistView ==
  /\ videos = [v \in {"v1", "v2", "v3"} |->
                 [owner |-> IF v = "v1" THEN "u1" ELSE "u2", isPublished |-> TRUE,
                  title |-> v, description |-> "a", thumbnail |-> 1, videoFile |-> 2]]
  /\ comments = <<>>
  /\ tweets = <<>>
  /\ \E o \in Users :
       playlists = [q \in PlaylistIds |->
                      [owner |-> IF q = "p1" THEN "u1" ELSE o, name |-> q,
                       description |-> "a", videos |-> <<>>]]
  /\ media = {1, 2}
  /\ likes = {}
  /\ subs = {}
  /\ nextId = 3
  /\ reqs = <<>>
  /\ last = NoResponse
  /\ prev = NoResponse
  /\ users = [u \in Users |-> UserDoc(u, "s")]

NextPlaylistView ==
  \/ \E v \in VideoIds : addVideoToPlaylist("u1", "p1", v) /\ SavedPlaylist("p1")
  \/ \E v \in VideoIds : removeVideoFromPlaylist("u1", "p1", v) /\ SavedPlaylist("p1")
  \/ updatePlaylist("u1", "p1", "b", "b") /\ SavedPlaylist("p1")
  \/ \E id \in VideoIds : deleteVideo("u1", id, TRUE, TRUE) /\ UNCHANGED prev
  \/ \E id \in PlaylistIds \cup {"p3"} : getPlaylistById("u1", id)
  \/ \E id \in Users : getUserPlaylists("u1", id)

SpecPlaylistView == InitPlaylistView /\ [][NextPlaylistView]_vars

\* ---- comment views and addComment (comment.controller.js)
\* getCommentAggregationPipeline run on one matching comment
CommentView(cs, vs, us, c) ==
  [id |-> c, content |-> cs[c].content,
   owner |-> First(LookupUser(us, cs[c].owner)),
   video |-> First(LookupVideo(vs, us, cs[c].video))]

\* Comment.aggregate(getCommentAggregationPipeline({_id}))
CommentById(cs, vs, us, id) ==
  {CommentView(cs, vs, us, c) : c \in {c \in DOMAIN cs : c = id}}

\* Comment.aggregate(getCommentAggregationPipeline({video}))
CommentsOfVideo(cs, vs, us, video) ==
  {CommentView(cs, vs, us, c) : c \in {c \in DOMAIN cs : cs[c].video = video}}

\* faulty variant of addComment: the isPublished check is left out
addCommentUnpublished(actor, id, comment) ==
  LET r == IF id \notin DOMAIN videos THEN <<404, "Video Not Found">>
           ELSE IF comment = "" THEN <<400, "Comment is required">>
           ELSE <<201, "Comment added successfully">>
      new == IF "c1" \notin DOMAIN comments THEN "c1" ELSE "c2"
  IN /\ r[1] = 201 => CommentIds \ DOMAIN comments # {}
     /\ comments' = IF r[1] = 201
                    THEN [c \in DOMAIN comments \cup {new} |->
                            IF c = new
                            THEN [owner |-> actor, video |-> id, content |-> comment]
                            ELSE comments[c]]
                    ELSE comments
     /\ Reply("addComment", actor, id, "", comment, "", r)
     /\ UNCHANGED <<videos, tweets, playlists, media, likes, subs, nextId, reqs, users>>
     /\ Body(IF r[1] = 201 THEN CommentById(comments', videos, users, new) ELSE {})

\* addComment: the checks, Comment.create, and the created comment read back
\* through the pipeline (newCommentAggregated[0])
addComment(actor, id, comment) ==
  LET r == IF id \notin DOMAIN videos THEN <<404, "Video Not Found">>
           ELSE IF ~videos[id].isPublished
             THEN <<400, "Cannot add comment to an unpublished video">>
           ELSE IF comment = "" THEN <<400, "Comment is required">>
           ELSE <<201, "Comment added successfully">>
      new == IF "c1" \notin DOMAIN comments THEN "c1" ELSE "c2"
  IN /\ r[1] = 201 => CommentIds \ DOMAIN comments # {}
     /\ comments' = IF r[1] = 201
                    THEN [c \in DOMAIN comments \cup {new} |->
                            IF c = new
                            THEN [owner |-> actor, video |-> id, content |-> comment]
                            ELSE comments[c]]
                    ELSE comments
     /\ Reply("addComment", actor, id, "", comment, "", r)
     /\ UNCHANGED <<videos, tweets, playlists, media, likes, subs, nextId, reqs, users>>
     /\ Body(IF r[1] = 201 THEN CommentById(comments', videos, users, new) ELSE {})

\* ---- addComment while videos are published and unpublished: v1 is published,
\* v2 is not, v4 has no document; there is no comment yet
InitComment ==
  /\ \E o \in Users :
       videos = [v \in {"v1", "v2"} |->
                   [owner |-> o, isPublished |-> (v = "v1"), title |-> v,
                    description |-> "a", thumbnail |-> 1, videoFile |-> 2]]
  /\ comments = <<>>
  /\ tweets = <<>>
  /\ playlists = <<>>
  /\ media = {1, 2}
  /\ likes = {}
  /\ subs = {}
  /\ nextId = 3
  /\ reqs = <<>>
  /\ last = NoResponse
  /\ prev = NoResponse
  /\ users = [u \in Users |-> UserDoc(u, "s")]

NextComment ==
  \/ \E a \in Users, id \in {"v1", "v2", "v4"}, t \in Texts : addComment(a, id, t)
  \/ \E a \in Users, id \in {"v1", "v2", "v4"} :
       togglePublishStatus(a, id) /\ UNCHANGED prev

SpecComment == InitComment /\ [][NextComment]_vars

\* ---- paginated and plain video / comment views
\* the order in which the documents of a collection were created (ids are handed
\* out in this order), which is the order an unsorted aggregate returns them in
VideoOrder == <<"v1", "v2", "v3", "v4">>
CommentOrder == <<"c1", "c2">>

\* what a query-string parameter can be: left out, not a number, the text
\* "Infinity", or a number
Params == {"omitted", "abc", "Infinity", "1", "2", "3"}

\* stands for the value Infinity of Number: no count or page of the model
\* reaches it
Infinity == 1000

\* let {page = 1, limit = 10} = req.query; Number(page): <<n>> is the number n,
\* <<>> is NaN
ToNumber(param, default) ==
  CASE param = "omitted" -> <<default>>
    [] param = "1" -> <<1>>
    [] param = "2" -> <<2>>
    [] param = "3" -> <<3>>
    [] param = "Infinity" -> <<Infinity>>
    [] OTHER -> <<>>

\* faulty variant of Paginate: the window starts at the page number
PaginateFromPage(items, page, limit) ==
  LET to == IF page + limit - 1 < Len(items) THEN page + limit - 1 ELSE Len(items)
  IN [docs |-> SubSeq(items, page, to), totalDocs |-> Len(items),
      page |-> page, limit |-> limit,
      totalPages |-> (Len(items) + limit - 1) \div limit]

\* aggregatePaginate(aggregate, {page, limit}): the window of the page and the
\* count of the whole result; the plugin takes parseInt(page) || 1 and
\* parseInt(limit) when it is positive, else 10 (parseInt(Infinity) is NaN)
Paginate(items, page, limit) ==
  LET p == IF page = Infinity \/ page = 0 THEN 1 ELSE page
      l == IF limit = Infinity \/ limit <= 0 THEN 10 ELSE limit
      from == (p - 1) * l + 1
      to == IF p * l < Len(items) THEN p * l ELSE Len(items)
  IN [docs |-> SubSeq(items, from, to), totalDocs |-> Len(items),
      page |-> p, limit |-> l,
      totalPages |-> (Len(items) + l - 1) \div l]

\* the views of the documents ids, in that order
Each(ids, View(_)) == [k \in 1..Len(ids) |-> View(ids[k])]

\* faulty variant of getVideoById: fetching a video counts a view on it
getVideoByIdCountsView(actor, id) ==
  /\ Reply("getVideoById", actor, id, "", "", "", <<200, "Video fetched successfully">>)
  /\ videos' = IF id \in DOMAIN videos THEN [videos EXCEPT ![id].views = @ + 1] ELSE videos
  /\ UNCHANGED <<comments, tweets, playlists, media, users, likes, subs, nextId, reqs>>
  /\ Body(Each(SelectSeq(VideoOrder, LAMBDA v : v \in DOMAIN videos /\ v = id),
               LAMBDA v : First(LookupVideo(videos, users, v))))

\* getVideoById answers with the array the aggregate returns (no, or one video)
getVideoById(actor, id) ==
  /\ Read("getVideoById", actor, id, "Video fetched successfully")
  /\ Body(Each(SelectSeq(VideoOrder, LAMBDA v : v \in DOMAIN videos /\ v = id),
               LAMBDA v : First(LookupVideo(videos, users, v))))

\* getChannelVideos: the videos whose owner is the caller
getChannelVideos(actor) ==
  /\ Read("getChannelVideos", actor, actor, "Videos of a channel fetched successfully")
  /\ Body(Each(SelectSeq(VideoOrder,
                         LAMBDA v : v \in DOMAIN videos /\ videos[v].owner = actor),
               LAMBDA v : First(LookupVideo(videos, users, v))))

\* ACCEPTED_SORT_TYPES of constants.js
AcceptedSortTypes == {"asc", "desc"}

\* sort: {[sortBy]: sortType} on the numeric field views; no sort keeps the order
Sorted(ids, sortBy, sortType) ==
  IF sortBy = "" THEN ids
  ELSE IF sortType = "asc"
  THEN SortSeq(ids, LAMBDA a, b : videos[a].views < videos[b].views)
  ELSE SortSeq(ids, LAMBDA a, b : videos[a].views > videos[b].views)

\* getAllVideos: the validations, then the paginated videos of userId
getAllVideos(actor, page, limit, userId, sortBy, sortType) ==
  LET r == IF ToNumber(page, 1) = <<>> \/ ToNumber(limit, 10) = <<>>
             THEN <<400, "Invalid page & limit passed">>
           ELSE IF userId = "" THEN <<400, "User Id is required">>
           ELSE IF sortType # "" /\ sortType \notin AcceptedSortTypes
             THEN <<400, "Invalid Sort Type">>
           ELSE IF sortType # "" /\ sortBy = ""
             THEN <<400, "Provide Sort By Field, Or exclude sortType">>
           ELSE <<200, "Videos fetched successfully">>
      matched == SelectSeq(VideoOrder,
                           LAMBDA v : v \in DOMAIN videos /\ videos[v].owner = userId)
  IN /\ Reply("getAllVideos", actor, userId, "", page, limit, r)
     /\ UNCHANGED <<docs, likes, subs, nextId, reqs>>
     /\ Body(IF r[1] = 200
             THEN Paginate(Each(Sorted(matched, sortBy, sortType),
                                LAMBDA v : First(LookupVideo(videos, users, v))),
                           ToNumber(page, 1)[1], ToNumber(limit, 10)[1])
             ELSE {})

\* getVideoComments: the validation, then the paginated comments of the video
\* (customLabels: docs -> comments, totalDocs -> totalComments)
getVideoComments(actor, id, page, limit) ==
  LET r == IF ToNumber(page, 1) = <<>> \/ ToNumber(limit, 10) = <<>>
             THEN <<400, "Invalid page & limit passed">>
           ELSE <<200, "Comments fetched successfully">>
      matched == SelectSeq(CommentOrder,
                           LAMBDA c : c \in DOMAIN comments /\ comments[c].video = id)
      paged == Paginate(Each(matched, LAMBDA c : CommentView(comments, videos, users, c)),
                        ToNumber(page, 1)[1], ToNumber(limit, 10)[1])
  IN /\ Reply("getVideoComments", actor, id, "", page, limit, r)
     /\ UNCHANGED <<docs, likes, subs, nextId, reqs>>
     /\ Body(IF r[1] = 200
             THEN [comments |-> paged.docs, totalComments |-> paged.totalDocs,
                   page |-> paged.page, limit |-> paged.limit,
                   totalPages |-> paged.totalPages]
             ELSE {})

\* ---- liked videos (like.controller.js)
\* $match {video: {$ne: null}} and $group {_id: "$video", numberOfLikes: {$sum: 1}}:
\* the group keys, and the count of a group (LikedVideoIdsUnmatched is the faulty
\* variant without the $match)
LikedVideoIdsUnmatched(ls) == {x.video : x \in ls}
LikedVideoIds(ls) == {x.video : x \in {y \in ls : y.video # Unset}}
NumberOfLikes(ls, v) == Cardinality({x \in ls : x.video = v})

\* $lookup of the video, {$first}, "video.numberOfLikes" and $replaceRoot: the
\* video with its owner inlined and the count; when the Video document is gone
\* the lookup finds nothing and the entry is the count alone
LikedVideo(ls, vs, us, v) ==
  IF v \in DOMAIN vs
  THEN [video |-> First(LookupVideo(vs, us, v)), numberOfLikes |-> NumberOfLikes(ls, v)]
  ELSE [numberOfLikes |-> NumberOfLikes(ls, v)]

\* the result has one entry per group, in no particular order; the model keys
\* the entries by the group's _id to keep equal entries apart
getLikedVideos(actor) ==
  /\ Read("getLikedVideos", actor, "", "Liked videos fetched successfully")
  /\ Body([v \in LikedVideoIds(likes) |-> LikedVideo(likes, videos, users, v)])

\* ---- subscriber lists (dashboard.controller.js, second half)
\* the rows of a set in the order they were created (_id order)
InOrder(rows) ==
  CHOOSE f \in [1..Cardinality(rows) -> rows] :
    \A i, j \in 1..Cardinality(rows) : i < j => f[i].id < f[j].id

\* faulty variant of SubscribersOf: every subscription is listed, whatever its channel
SubscribersOfAnyChannel(ss, us, channel) ==
  IF ss = {} THEN <<>>
  ELSE <<[subscribers |-> Each(InOrder(ss),
                               LAMBDA x : First(LookupUser(us, x.subscriber))),
          numberOfSubcribers |-> Cardinality(ss)]>>

\* the aggregate of getUserChannelSubscribers: no document when no row matches,
\* else one document with the subscribers and their number
SubscribersOf(ss, us, channel) ==
  LET rows == {x \in ss : x.channel = channel}
  IN IF rows = {} THEN <<>>
     ELSE <<[subscribers |-> Each(InOrder(rows),
                                  LAMBDA x : First(LookupUser(us, x.subscriber))),
             numberOfSubcribers |-> Cardinality(rows)]>>

\* the aggregate of getSubscribedChannels
ChannelsOf(ss, us, subscriber) ==
  LET rows == {x \in ss : x.subscriber = subscriber}
  IN IF rows = {} THEN <<>>
     ELSE <<[channels |-> Each(InOrder(rows),
                               LAMBDA x : First(LookupUser(us, x.channel))),
             numberOfChannelsSubscribedTo |-> Cardinality(rows)]>>

getUserChannelSubscribers(actor, channelId) ==
  /\ Read("getUserChannelSubscribers", actor, channelId,
          "Subscriber List for channel Fetched Successfully")
  /\ Body(SubscribersOf(subs, users, channelId))

getSubscribedChannels(actor, subscriberId) ==
  /\ Read("getSubscribedChannels", actor, subscriberId,
          "Channels Subscribed To Fetched Successfully")
  /\ Body(ChannelsOf(subs, users, subscriberId))

\* ---- channel stats (dashboard.controller.js, first half)
RECURSIVE SumViews(_, _)
\* $group {numberOfViews: {$sum: "$views"}} over the videos ids
SumViews(vs, ids) ==
  IF ids = {} THEN 0
  ELSE LET v == CHOOSE x \in ids : TRUE
       IN vs[v].views + SumViews(vs, ids \ {v})

\* faulty variant of OwnerVia: the lookup's $match on the owner is left out
OwnerViaAnyOwner(coll, target, caller) ==
  IF target \in DOMAIN coll THEN coll[target].owner ELSE Unset

\* $lookup of a Like's target with {$match: {owner: caller}}, {$first} and
\* "$xOwner.owner": the caller's id when the target exists and is the caller's,
\* no value otherwise (also when the Like has no such target field)
OwnerVia(coll, target, caller) ==
  IF target \in DOMAIN coll /\ coll[target].owner = caller THEN caller ELSE Unset

\* the _id of the group a Like row falls in: {video, comment, tweet}
LikeGroup(x, caller) ==
  [video |-> OwnerVia(videos, x.video, caller),
   comment |-> OwnerVia(comments, x.comment, caller),
   tweet |-> OwnerVia(tweets, x.tweet, caller)]

\* the groups, and {likes: {$sum: 1}} of a group
LikeGroups(caller) == {LikeGroup(x, caller) : x \in likes}
GroupLikes(g, caller) == Cardinality({x \in likes : LikeGroup(x, caller) = g})

\* faulty variant of MergedLikes: one count for all likes of the caller's content
MergedLikesOneBucket(field, caller) ==
  LET having == {g \in LikeGroups(caller) :
                   g.video # Unset \/ g.comment # Unset \/ g.tweet # Unset}
  IN IF having = {} THEN <<>> ELSE <<GroupLikes(CHOOSE g \in having : TRUE, caller)>>

\* the conditional fields, $replaceRoot, and $mergeObjects of all groups: the
\* field videoLikes / commentLikes / tweetLikes of the merged object is the count
\* of a group whose _id has video / comment / tweet; <<>> when no group has it.
\* $group gives no order, so with several such groups any of them may come last
MergedLikes(field, caller) ==
  LET having == {g \in LikeGroups(caller) : g[field] # Unset}
  IN IF having = {} THEN <<>> ELSE <<GroupLikes(CHOOSE g \in having : TRUE, caller)>>

\* x?.[0]?.field || 0
OrZero(value) == IF value = <<>> \/ value = <<0>> THEN 0 ELSE value[1]

\* faulty variant of getChannelStats: the subscriptions are counted without the
\* $match on the channel
getChannelStatsAllChannels(actor) ==
  LET mine == {v \in DOMAIN videos : videos[v].owner = actor}
      videoStats == IF mine = {} THEN <<>>
                    ELSE <<[numberOfVideos |-> Cardinality(mine),
                            numberOfViews |-> SumViews(videos, mine)]>>
      subscribers == subs
  IN /\ Read("getChannelStats", actor, actor, "Channel Stats fetched successfully")
     /\ Body([totalVideos |-> IF videoStats = <<>> THEN 0
                              ELSE videoStats[1].numberOfVideos,
              totalVideoViews |-> IF videoStats = <<>> THEN 0
                                  ELSE videoStats[1].numberOfViews,
              totalNumberOfSubscribers |-> Cardinality(subscribers),
              totalVideoLikes |-> OrZero(MergedLikes("video", actor)),
              totalCommentLikes |-> OrZero(MergedLikes("comment", actor)),
              tweetLikes |-> OrZero(MergedLikes("tweet", actor))])

getChannelStats(actor) ==
  LET mine == {v \in DOMAIN videos : videos[v].owner = actor}
      videoStats == IF mine = {} THEN <<>>
                    ELSE <<[numberOfVideos |-> Cardinality(mine),
                            numberOfViews |-> SumViews(videos, mine)]>>
      subscribers == {x \in subs : x.channel = actor}
  IN /\ Read("getChannelStats", actor, actor, "Channel Stats fetched successfully")
     /\ Body([totalVideos |-> IF videoStats = <<>> THEN 0
                              ELSE videoStats[1].numberOfVideos,
              totalVideoViews |-> IF videoStats = <<>> THEN 0
                                  ELSE videoStats[1].numberOfViews,
              totalNumberOfSubscribers |-> Cardinality(subscribers),
              totalVideoLikes |-> OrZero(MergedLikes("video", actor)),
              totalCommentLikes |-> OrZero(MergedLikes("comment", actor)),
              tweetLikes |-> OrZero(MergedLikes("tweet", actor))])

\* ---- the reading handlers against stores of every content: v1 and v2, c1, t1
\* and p1 exist with owners of either kind, v3, c2 and t2 were deleted; any set
\* of the Like and Subscription rows below is in the store
LikeRows ==
  {[id |-> 11, video |-> "v1", comment |-> Unset, tweet |-> Unset, likedBy |-> "u1"],
   [id |-> 12, video |-> "v1", comment |-> Unset, tweet |-> Unset, likedBy |-> "u2"],
   [id |-> 13, video |-> "v3", comment |-> Unset, tweet |-> Unset, likedBy |-> "u1"],
   [id |-> 14, video |-> Unset, comment |-> "c1", tweet |-> Unset, likedBy |-> "u2"],
   [id |-> 15, video |-> Unset, comment |-> Unset, tweet |-> "t1", likedBy |-> "u2"]}

SubscriptionRows ==
  {[id |-> 21, subscriber |-> "u1", channel |-> "u2"],
   [id |-> 22, subscriber |-> "u2", channel |-> "u1"],
   [id |-> 23, subscriber |-> "u1", channel |-> "u1"]}

InitReads ==
  /\ \E o \in Users :
       /\ videos = [v \in {"v1", "v2"} |->
                      [owner |-> IF v = "v1" THEN o ELSE "u2", isPublished |-> TRUE,
                       title |-> v, description |-> "a", thumbnail |-> 1,
                       videoFile |-> 2, views |-> IF v = "v1" THEN 2 ELSE 1]]
       /\ comments = [c \in {"c1"} |-> [owner |-> o, video |-> "v1", content |-> "a"]]
       /\ tweets = [t \in {"t1"} |-> [owner |-> o, content |-> "a"]]
  /\ playlists = [q \in {"p1"} |->
                    [owner |-> "u1", name |-> "a", description |-> "a",
                     videos |-> <<"v2", "v3", "v1">>]]
  /\ media = {1, 2}
  /\ likes \in SUBSET LikeRows
  /\ subs \in SUBSET SubscriptionRows
  /\ nextId = 30
  /\ reqs = <<>>
  /\ last = NoResponse
  /\ prev = NoResponse
  /\ \E secret \in {"s", "t"} : users = [u \in Users |-> UserDoc(u, secret)]

NextReads ==
  \/ \E id \in {"v1", "v4"}, q \in {<<"omitted", "omitted">>, <<"abc", "1">>, <<"2", "1">>} :
       getVideoComments("u1", id, q[1], q[2])
  \/ \E id \in PlaylistIds : getPlaylistById("u1", id)
  \/ \E id \in Users : getUserPlaylists("u1", id)
  \/ \E id \in {"v1", "v4"} : getVideoById("u1", id)
  \/ \E q \in {<<"omitted", "omitted">>, <<"1", "abc">>, <<"2", "1">>},
        id \in {"", "u2"},
        sort \in {<<"", "">>, <<"views", "desc">>, <<"", "asc">>, <<"views", "up">>} :
       getAllVideos("u1", q[1], q[2], id, sort[1], sort[2])
  \/ \E a \in Users : getChannelVideos(a)
  \/ getLikedVideos("u1")
  \/ \E id \in Users : getUserChannelSubscribers("u1", id)
  \/ \E id \in Users : getSubscribedChannels("u1", id)
  \/ \E a \in Users : getChannelStats(a)

SpecReads == InitReads /\ [][NextReads]_vars

\* ---- the paginated handlers over stores with up to four videos of u2 and up
\* to two comments on v1
InitPaging ==
  /\ \E n \in 0..Len(VideoOrder) :
       videos = [v \in {VideoOrder[k] : k \in 1..n} |->
                   [owner |-> "u2", isPublished |-> TRUE, title |-> v,
                    description |-> "a", thumbnail |-> 1, videoFile |-> 2,
                    views |-> IF v \in {"v1", "v3"} THEN 2 ELSE 1]]
  /\ \E n \in 0..Len(CommentOrder) :
       comments = [c \in {CommentOrder[k] : k \in 1..n} |->
                     [owner |-> "u1", video |-> "v1", content |-> "a"]]
  /\ tweets = <<>>
  /\ playlists = <<>>
  /\ media = {1, 2}
  /\ likes = {}
  /\ subs = {}
  /\ nextId = 3
  /\ reqs = <<>>
  /\ last = NoResponse
  /\ prev = NoResponse
  /\ users = [u \in Users |-> UserDoc(u, "s")]

NextPaging ==
  \/ \E id \in {"v1", "v4"}, page \in Params, limit \in Params :
       getVideoComments("u1", id, page, limit)
  \/ \E page \in Params, limit \in Params, id \in {"", "u2"},
        sort \in {<<"", "">>, <<"views", "desc">>} :
       getAllVideos("u1", page, limit, id, sort[1], sort[2])

SpecPaging == InitPaging /\ [][NextPaging]_vars

\* ---- Like toggles, one request after the other, and the liked-videos view:
\* v1, v2 and c1 exist
InitLikedVideos ==
  /\ videos = [v \in {"v1", "v2"} |->
                 [owner |-> "u1", isPublished |-> TRUE, title |-> v,
                  description |-> "a", thumbnail |-> 1, videoFile |-> 2]]
  /\ comments = [c \in {"c1"} |-> [owner |-> "u1", video |-> "v1", content |-> "a"]]
  /\ tweets = <<>>
  /\ playlists = <<>>
  /\ media = {1, 2}
  /\ likes = {}
  /\ subs = {}
  /\ nextId = 3
  /\ reqs = <<>>
  /\ last = NoResponse
  /\ prev = NoResponse
  /\ users = [u \in Users |-> UserDoc(u, "s")]

ReceiveLike ==
  /\ InFlight = {}
  /\ Len(reqs) < MaxSeqReqs
  /\ \E actor \in Users :
       \/ \E id \in {"v1", "v2"} : Receive("toggleVideoLike", actor, id)
       \/ Receive("toggleCommentLike", actor, "c1")

NextLikedVideos ==
  \/ ReceiveLike
  \/ toggleVideoLike
  \/ toggleCommentLike
  \/ getLikedVideos("u1")

SpecLikedVideos == InitLikedVideos /\ [][NextLikedVideos]_vars

\* ---- subscription toggles, one request after the other, and the subscriber
\* list of a channel
ReceiveSubscription ==
  /\ InFlight = {}
  /\ Len(reqs) < MaxSeqReqs
  /\ \E actor \in Users, id \in Users : Receive("toggleSubscription", actor, id)

NextSubscribers ==
  \/ ReceiveSubscription
  \/ toggleSubscription
  \/ \E id \in Users : getUserChannelSubscribers("u1", id)

SpecSubscribers == InitToggle /\ [][NextSubscribers]_vars

\* ===================================================== toggle properties
Done(i) == reqs[i].pc = "done"
\* the target of request i has a document (a channel is not looked up)
HasTarget(i) ==
  \/ reqs[i].op = "toggleVideoLike" /\ reqs[i].target \in DOMAIN videos
  \/ reqs[i].op = "toggleCommentLike" /\ reqs[i].target \in DOMAIN comments
  \/ reqs[i].op = "toggleTweetLike" /\ reqs[i].target \in DOMAIN tweets
  \/ reqs[i].op = "toggleSubscription"
\* the rows among ls (Likes) and ss (Subscriptions) that are the edge of request i
PairRows(i, ls, ss) ==
  {x \in ls : /\ x.likedBy = reqs[i].actor
              /\ \/ reqs[i].op = "toggleVideoLike" /\ x.video = reqs[i].target
                 \/ reqs[i].op = "toggleCommentLike" /\ x.comment = reqs[i].target
                 \/ reqs[i].op = "toggleTweetLike" /\ x.tweet = reqs[i].target}
  \cup {x \in ss : /\ reqs[i].op = "toggleSubscription"
                   /\ x.subscriber = reqs[i].actor
                   /\ x.channel = reqs[i].target}
Succeeded(i) == Done(i) /\ reqs[i].status \in {200, 201}
SamePair(i, j) ==
  /\ reqs[i].op = reqs[j].op
  /\ reqs[i].actor = reqs[j].actor
  /\ reqs[i].target = reqs[j].target
\* the edge rows of request i's (actor, target) pair when it was received / responded
Edge0(i) == PairRows(i, reqs[i].likes0, reqs[i].subs0)
Edge1(i) == PairRows(i, reqs[i].likes1, reqs[i].subs1)
\* j is the next request after i on the same pair
NextOnPair(i, j) ==
  /\ i < j
  /\ SamePair(i, j)
  /\ \A k \in (i + 1)..(j - 1) : ~SamePair(i, k)
RemovedTag(i) == reqs[i].message \in {"Like removed successfully", "User Unsubscribed"}
AddedTag(i) == reqs[i].message \in {"Like added successfully", "User Subscribed"}

\* C1: two toggles by the same actor on the same existing target, run one after
\* the other with no other request on the pair in between, flip the edge and
\* flip it back: Absent -> Present -> Absent and Present (one row) -> Absent ->
\* Present (one row).  Rows are compared up to their _id.
C1_ToggleTwiceRestoresEdge ==
  \A i, j \in 1..Len(reqs) :
    (/\ NextOnPair(i, j)
     /\ Done(i) /\ Done(j)
     /\ HasTarget(i)
     /\ Cardinality(Edge0(i)) <= 1)
    => /\ Cardinality(Edge1(i)) = 1 - Cardinality(Edge0(i))
       /\ Cardinality(Edge1(j)) = Cardinality(Edge0(i))
       /\ Succeeded(i) /\ Succeeded(j)

\* C1 witness: a Present -> Absent -> Present round trip of a Like has run
C1_Witness ==
  \E i, j \in 1..Len(reqs) :
    /\ NextOnPair(i, j) /\ Done(i) /\ Done(j)
    /\ reqs[i].op = "toggleCommentLike"
    /\ Cardinality(Edge0(i)) = 1
    /\ Cardinality(Edge1(i)) = 0
    /\ Cardinality(Edge1(j)) = 1

\* C2: at most one Like row per (target, likedBy) and at most one Subscription
\* row per (subscriber, channel), in every reachable state
C2_AtMostOneEdge ==
  /\ \A x, y \in likes :
       (x.likedBy = y.likedBy /\ x.video = y.video /\ x.comment = y.comment
        /\ x.tweet = y.tweet) => x = y
  /\ \A x, y \in subs :
       (x.subscriber = y.subscriber /\ x.channel = y.channel) => x = y

\* C3: a Like toggle on a target id with no document answers 404 and leaves the
\* Like collection as it was
C3_MissingTargetNotFound ==
  \A i \in 1..Len(reqs) :
    (Done(i) /\ reqs[i].op \in LikeOps /\ ~HasTarget(i))
    => /\ reqs[i].status = 404
       /\ reqs[i].likes1 = reqs[i].likes0

\* C3 witness: each of the three Like toggles has answered a missing target
C3_Witness ==
  \A op \in LikeOps :
    \E i \in 1..Len(reqs) :
      /\ Done(i) /\ reqs[i].op = op /\ reqs[i].status = 404
      /\ ~HasTarget(i)

\* what a sequential toggle does to the collections, apart from the response data
ToggleEffect(i) ==
  IF Edge0(i) # {}
  THEN \E row \in Edge0(i) :
         /\ reqs[i].likes1 \cup reqs[i].subs1
              = (reqs[i].likes0 \cup reqs[i].subs0) \ {row}
         /\ RemovedTag(i)
         /\ reqs[i].op \in LikeOps => reqs[i].data = {row}
  ELSE \E row \in Edge1(i) :
         /\ reqs[i].likes1 \cup reqs[i].subs1
              = (reqs[i].likes0 \cup reqs[i].subs0) \cup {row}
         /\ row \notin reqs[i].likes0 \cup reqs[i].subs0
         /\ AddedTag(i)
         /\ reqs[i].op \in LikeOps =>
              /\ reqs[i].data = {row}
              /\ row.likedBy = reqs[i].actor
              /\ {row.video, row.comment, row.tweet} = {reqs[i].target, Unset}

\* C4 as stated: every toggle, toggleSubscription included, answers with the row
\* it deleted or created
C4_ResponseCarriesRow ==
  \A i \in 1..Len(reqs) :
    (Done(i) /\ HasTarget(i))
    => /\ ToggleEffect(i)
       /\ \E row \in Edge0(i) \cup Edge1(i) : reqs[i].data = {row}

\* C4 amended: a toggle that does not interleave deletes the existing row of the
\* pair, or creates exactly one row for it; the Like toggles answer with that row
\* and the removed / added message, toggleSubscription answers with an empty
\* data object and "User Unsubscribed" / "User Subscribed"
C4_ToggleEffect ==
  \A i \in 1..Len(reqs) :
    (Done(i) /\ HasTarget(i))
    => /\ ToggleEffect(i)
       /\ reqs[i].op = "toggleSubscription" => reqs[i].data = {}

\* C4 witness: a Like toggle has removed a row, and a subscription toggle has
\* created one
C4_Witness ==
  /\ \E i \in 1..Len(reqs) :
       Done(i) /\ reqs[i].op = "toggleTweetLike" /\ Edge0(i) # {} /\ Edge1(i) = {}
  /\ \E i \in 1..Len(reqs) :
       Done(i) /\ reqs[i].op = "toggleSubscription" /\ Edge0(i) = {} /\ Edge1(i) # {}

\* C5 as stated: a successful toggle answers with the same status code whether
\* it added or removed the edge
C5_SameStatusBothWays ==
  \A i, j \in 1..Len(reqs) :
    (Succeeded(i) /\ Succeeded(j) /\ reqs[i].op = reqs[j].op)
    => reqs[i].status = reqs[j].status

\* C5 amended: toggleSubscription answers 200 both ways; a Like toggle answers
\* 201 when it added the row and 200 when it removed it; the messages differ
C5_StatusByOutcome ==
  \A i \in 1..Len(reqs) :
    (Done(i) /\ HasTarget(i))
    => /\ reqs[i].op = "toggleSubscription" => reqs[i].status = 200
       /\ (reqs[i].op \in LikeOps /\ AddedTag(i)) => reqs[i].status = 201
       /\ (reqs[i].op \in LikeOps /\ RemovedTag(i)) => reqs[i].status = 200
       /\ AddedTag(i) # RemovedTag(i)

\* C5 witness: one Like toggle has added and another has removed, and a
\* subscription toggle has done either
C5_Witness ==
  /\ \E i, j \in 1..Len(reqs) :
       /\ Done(i) /\ Done(j) /\ reqs[i].op = "toggleVideoLike" /\ SamePair(i, j)
       /\ AddedTag(i) /\ RemovedTag(j)
  /\ \E i \in 1..Len(reqs) : Done(i) /\ reqs[i].op = "toggleSubscription"

\* ============================================== owner-guard properties
CommentOps == {"updateComment", "deleteComment"}
TweetOps == {"updateTweet", "deleteTweet"}
PlaylistOps == {"updatePlaylist", "deletePlaylist", "addVideoToPlaylist",
                "removeVideoFromPlaylist"}
VideoOps == {"updateVideo", "deleteVideo", "togglePublishStatus"}

\* the collection request r addressed, as the request found it
Addressed(r) ==
  CASE r.op \in CommentOps -> r.pre.comments
    [] r.op \in TweetOps -> r.pre.tweets
    [] r.op \in PlaylistOps -> r.pre.playlists
    [] OTHER -> r.pre.videos
\* the entity with the given id existed
Existed(r) == r.id \in DOMAIN Addressed(r)
\* ... and belonged to somebody else
Foreign(r) == Existed(r) /\ Addressed(r)[r.id].owner # r.actor
\* the body fields the handler requires were given
ValidBody(r) ==
  CASE r.op \in {"updateComment", "updateTweet"} -> r.text # ""
    [] r.op \in {"updatePlaylist", "updateVideo"} -> r.text # "" /\ r.text2 # ""
    [] OTHER -> TRUE
StoreUntouched(r) ==
  /\ videos = r.pre.videos
  /\ comments = r.pre.comments
  /\ tweets = r.pre.tweets
  /\ playlists = r.pre.playlists
  /\ media = r.pre.media
  /\ likes = r.pre.likes
  /\ subs = r.pre.subs
  /\ users = r.pre.users

\* C6: a request of somebody who is not the owner to update or delete an existing
\* Comment, Tweet or Playlist, or to add a video to / remove a video from an
\* existing Playlist, is answered 403 and changes nothing
C6_NonOwnerForbidden ==
  (/\ last.op \in CommentOps \cup TweetOps \cup PlaylistOps
   /\ Foreign(last)
   /\ ValidBody(last))
  => /\ last.status = 403
     /\ StoreUntouched(last)

\* C6 witness: somebody else asked to remove the one video of a playlist
C6_Witness ==
  /\ last.op = "removeVideoFromPlaylist"
  /\ Foreign(last)
  /\ last.pre.playlists[last.id].videos = <<last.video>>
  /\ last.status = 403

\* C7: updateVideo, deleteVideo and togglePublishStatus by somebody who is not
\* the video's owner are answered 403 and leave the video and its media alone
C7_NonOwnerVideoForbidden ==
  (/\ last.op \in VideoOps
   /\ Foreign(last)
   /\ ValidBody(last))
  => /\ last.status = 403
     /\ StoreUntouched(last)

ExistenceOps == {"updateVideo", "deleteVideo", "updateComment", "deleteComment",
                 "updatePlaylist", "deletePlaylist"}

\* C8 as stated: an id with no document is answered 403, like a foreign entity
C8_MissingIsForbidden ==
  (last.op \in ExistenceOps /\ ValidBody(last) /\ ~Existed(last))
  => last.status = 403

\* C8 amended: an id with no document is answered 404 and nothing changes; 403 is
\* answered only for an existing entity of somebody else, and the Comment and
\* Playlist handlers answer it to every such request
C8_MissingIsNotFound ==
  (last.op \in ExistenceOps /\ ValidBody(last))
  => /\ ~Existed(last) => (last.status = 404 /\ StoreUntouched(last))
     /\ last.status = 403 => Foreign(last)
     /\ (last.op \notin VideoOps /\ Foreign(last)) => last.status = 403

\* C8 witness: a comment id with no document was answered 404
C8_Witness ==
  /\ last.op = "deleteComment"
  /\ ~Existed(last)
  /\ last.status = 404

\* ================================================== playlist properties
\* vs with its i-th element taken out
Without(vs, i) == [k \in 1..(Len(vs) - 1) |-> IF k < i THEN vs[k] ELSE vs[k + 1]]
Member(vs, v) == v \in {vs[k] : k \in 1..Len(vs)}
Added(r) == r.op = "addVideoToPlaylist" /\ r.status = 200
Removed(r) == r.op = "removeVideoFromPlaylist" /\ r.status = 200
OwnRequest(r) == Existed(r) /\ Addressed(r)[r.id].owner = r.actor

\* C9: the owner adding an existing video that is not in the playlist appends it
\* at the end; removing a member takes out that one element and keeps the order
\* of the others; a remove right after the add of the same video gives back the
\* sequence the add found
C9_AddRemoveInverse ==
  /\ (/\ last.op = "addVideoToPlaylist"
      /\ OwnRequest(last)
      /\ last.video \in DOMAIN last.pre.videos
      /\ ~Member(last.pre.playlists[last.id].videos, last.video))
     => /\ Added(last)
        /\ playlists[last.id].videos
             = last.pre.playlists[last.id].videos \o <<last.video>>
  /\ (/\ last.op = "removeVideoFromPlaylist"
      /\ OwnRequest(last)
      /\ last.video \in DOMAIN last.pre.videos
      /\ Member(last.pre.playlists[last.id].videos, last.video))
     => /\ Removed(last)
        /\ \E i \in 1..Len(last.pre.playlists[last.id].videos) :
             /\ last.pre.playlists[last.id].videos[i] = last.video
             /\ playlists[last.id].videos
                  = Without(last.pre.playlists[last.id].videos, i)
  /\ (/\ Added(prev)
      /\ last.op = "removeVideoFromPlaylist"
      /\ last.actor = prev.actor /\ last.id = prev.id /\ last.video = prev.video)
     => /\ Removed(last)
        /\ playlists[last.id].videos = prev.pre.playlists[prev.id].videos

\* C9 witness: a video was added to a playlist of two and removed again
C9_Witness ==
  /\ Added(prev)
  /\ Removed(last)
  /\ last.id = prev.id /\ last.video = prev.video
  /\ Len(prev.pre.playlists[prev.id].videos) = 2
  /\ Len(last.pre.playlists[last.id].videos) = 3

C11_NoDuplicateVideo ==
  \A q \in DOMAIN playlists :
    \A i, j \in 1..Len(playlists[q].videos) :
      playlists[q].videos[i] = playlists[q].videos[j] => i = j

\* ================================================= composed-view properties
\* the latest request answered with composed Playlist documents
PlaylistViewOps == {"getPlaylistById", "getUserPlaylists", "addVideoToPlaylist",
                    "removeVideoFromPlaylist", "updatePlaylist"}
AnsweredPlaylists ==
  /\ last.op \in PlaylistViewOps
  /\ last.status = 200
  /\ prev.op = "body"
\* the playlists the latest request asked for
Asked ==
  IF last.op = "getUserPlaylists"
  THEN {q \in DOMAIN playlists : playlists[q].owner = last.id}
  ELSE {q \in DOMAIN playlists : q = last.id}
\* the stored ids that still have a Video document, in stored order
Live(ids) == SelectSeq(ids, LAMBDA v : v \in DOMAIN videos)
\* d is the expansion of the stored video id v
Expands(d, v) ==
  /\ v \in DOMAIN videos
  /\ d.id = v
  /\ d.title = videos[v].title
  /\ d.owner.id = videos[v].owner
OnePerPlaylist ==
  /\ {d.id : d \in prev.data} = Asked
  /\ Cardinality(prev.data) = Cardinality(Asked)

\* C12 as stated: the composed view has one document per matching playlist, and
\* its videos sequence has the expansion of the i-th stored id at position i
C12_ViewMirrorsStoredIds ==
  AnsweredPlaylists
  => /\ OnePerPlaylist
     /\ \A d \in prev.data :
          /\ Len(d.videos) = Len(playlists[d.id].videos)
          /\ \A i \in 1..Len(d.videos) : Expands(d.videos[i], playlists[d.id].videos[i])

\* C12, what the pipeline does guarantee: one document per matching playlist (an
\* empty playlist included, with an empty videos sequence); its videos sequence
\* has the expansions of the stored ids that still have a Video document, in
\* stored order, and leaves out the ids of deleted videos; when no stored id is
\* dangling, position i holds the expansion of the i-th stored id
C12_ViewListsLiveIdsInOrder ==
  AnsweredPlaylists
  => /\ OnePerPlaylist
     /\ \A d \in prev.data :
          /\ Len(d.videos) = Len(Live(playlists[d.id].videos))
          /\ \A i \in 1..Len(d.videos) :
               Expands(d.videos[i], Live(playlists[d.id].videos)[i])
          /\ playlists[d.id].videos = <<>> => d.videos = <<>>

\* C12 witness: the two playlists of a user were listed, one empty and one of
\* three ids whose second video has been deleted
C12_Witness ==
  /\ AnsweredPlaylists
  /\ last.op = "getUserPlaylists"
  /\ Cardinality(prev.data) = 2
  /\ \E d \in prev.data : playlists[d.id].videos = <<>> /\ d.videos = <<>>
  /\ \E d \in prev.data :
       /\ Len(playlists[d.id].videos) = 3
       /\ playlists[d.id].videos[2] \notin DOMAIN videos
       /\ Len(d.videos) = 2

\* C13: addComment on an existing unpublished video is answered 400 and creates
\* no comment; addComment with a non-empty comment on an existing published
\* video creates exactly one comment, owned by the actor and bound to the video,
\* and answers 201 with that comment, its owner and its video's owner inlined
C13_AddCommentNeedsPublished ==
  (last.op = "addComment" /\ Existed(last))
  => /\ ~last.pre.videos[last.id].isPublished
          => /\ last.status = 400
             /\ comments = last.pre.comments
     /\ (last.pre.videos[last.id].isPublished /\ last.text # "")
          => /\ last.status = 201
             /\ \E c \in DOMAIN comments \ DOMAIN last.pre.comments :
                  /\ DOMAIN comments = DOMAIN last.pre.comments \cup {c}
                  /\ \A x \in DOMAIN last.pre.comments : comments[x] = last.pre.comments[x]
                  /\ comments[c].owner = last.actor
                  /\ comments[c].video = last.id
                  /\ comments[c].content = last.text
                  /\ \E d \in prev.data :
                       /\ prev.data = {d}
                       /\ d.id = c
                       /\ d.content = last.text
                       /\ d.owner.id = last.actor
                       /\ d.owner.username = users[last.actor].username
                       /\ d.video.id = last.id
                       /\ d.video.owner.id = videos[last.id].owner
                       /\ d.video.owner.username = users[videos[last.id].owner].username

\* C13 witness: a comment on a video that had been unpublished was refused after
\* an earlier comment on it had been accepted
C13_Witness ==
  /\ last.op = "addComment"
  /\ Existed(last)
  /\ ~last.pre.videos[last.id].isPublished
  /\ last.text # ""
  /\ last.status = 400
  /\ \E c \in DOMAIN comments : comments[c].video = last.id

ReadOps == {"getVideoComments", "getPlaylistById", "getUserPlaylists", "getVideoById",
            "getAllVideos", "getChannelVideos", "getLikedVideos",
            "getUserChannelSubscribers", "getSubscribedChannels", "getChannelStats"}

\* C14: the ten composed-view handlers leave every collection (Videos, Comments,
\* Tweets, Playlists, Likes, Subscriptions, Users) and the media store as they
\* found them, whatever the input and whether they answer 200 or 400
C14_ReadsChangeNothing ==
  last.op \in ReadOps => StoreUntouched(last)

\* C14 witness: a paginated read has answered with documents of a store that
\* holds Likes and Subscriptions
C14_Witness ==
  /\ last.op = "getAllVideos"
  /\ last.status = 200
  /\ prev.data.totalDocs >= 1
  /\ likes # {}
  /\ subs # {}

StatsFields == {"totalVideos", "totalVideoViews", "totalNumberOfSubscribers",
                "totalVideoLikes", "totalCommentLikes", "tweetLikes"}
\* Like row x targets a video / comment / tweet that exists and belongs to a
LikesVideoOf(x, a) == x.video \in DOMAIN videos /\ videos[x.video].owner = a
LikesCommentOf(x, a) == x.comment \in DOMAIN comments /\ comments[x.comment].owner = a
LikesTweetOf(x, a) == x.tweet \in DOMAIN tweets /\ tweets[x.tweet].owner = a
\* a has no video, no subscriber and no like on anything of theirs
NothingOf(a) ==
  /\ \A v \in DOMAIN videos : videos[v].owner # a
  /\ \A x \in subs : x.channel # a
  /\ \A x \in likes : ~LikesVideoOf(x, a) /\ ~LikesCommentOf(x, a) /\ ~LikesTweetOf(x, a)

\* C15: getChannelStats answers 200 with exactly the six fields, each a number;
\* for a caller with no video, no subscriber and no like on their content all
\* six are 0, whatever documents of other users the store holds
C15_StatsSixNumbers ==
  last.op = "getChannelStats"
  => /\ last.status = 200
     /\ DOMAIN prev.data = StatsFields
     /\ \A f \in StatsFields : prev.data[f] \in Nat
     /\ NothingOf(last.actor) => \A f \in StatsFields : prev.data[f] = 0

\* C15 witness: the stats of a caller with nothing were fetched from a store
\* that holds another user's videos, likes on them and a subscription
C15_Witness ==
  /\ last.op = "getChannelStats"
  /\ NothingOf(last.actor)
  /\ \A f \in StatsFields : prev.data[f] = 0
  /\ Cardinality(likes) >= 3
  /\ subs # {}
  /\ DOMAIN videos # {}

\* C16: the three like counts of getChannelStats are the numbers of Like rows
\* whose video / comment / tweet exists and is owned by the caller; rows on other
\* users' targets and on deleted targets count nowhere, and no bucket takes
\* another bucket's count
C16_LikeCountsByType ==
  last.op = "getChannelStats"
  => /\ prev.data.totalVideoLikes
          = Cardinality({x \in likes : LikesVideoOf(x, last.actor)})
     /\ prev.data.totalCommentLikes
          = Cardinality({x \in likes : LikesCommentOf(x, last.actor)})
     /\ prev.data.tweetLikes
          = Cardinality({x \in likes : LikesTweetOf(x, last.actor)})

\* C16 witness: the caller has two video likes, one comment like and one tweet
\* like, and the store also holds a like on a deleted video
C16_Witness ==
  /\ last.op = "getChannelStats"
  /\ prev.data.totalVideoLikes = 2
  /\ prev.data.totalCommentLikes = 1
  /\ prev.data.tweetLikes = 1
  /\ \E x \in likes : x.video # Unset /\ x.video \notin DOMAIN videos

\* the Like rows on video v that getLikedVideos found in the store
LikesOn(v) == {x \in last.pre.likes : x.video = v}
\* the entries of the answer that are video v
EntriesOf(v) ==
  {g \in DOMAIN prev.data : "video" \in DOMAIN prev.data[g] /\ prev.data[g].video.id = v}

\* C17: after any sequence of Like toggles, getLikedVideos has exactly one entry
\* for each video with at least one Like row, carrying the number of those rows
\* as numberOfLikes, and no entry for anything else (a video never liked, or
\* liked and unliked again; a comment like)
C17_LikedVideosCounted ==
  last.op = "getLikedVideos"
  => /\ \A v \in DOMAIN last.pre.videos :
          IF LikesOn(v) = {} THEN EntriesOf(v) = {}
          ELSE /\ Cardinality(EntriesOf(v)) = 1
               /\ \A g \in EntriesOf(v) :
                    prev.data[g].numberOfLikes = Cardinality(LikesOn(v))
     /\ \A g \in DOMAIN prev.data : \E v \in DOMAIN last.pre.videos : g \in EntriesOf(v)

\* C17 witness: v1 is listed with one like while v2, liked and unliked again, and
\* the liked comment are not
C17_Witness ==
  /\ last.op = "getLikedVideos"
  /\ Cardinality(EntriesOf("v1")) = 1
  /\ \A g \in EntriesOf("v1") : prev.data[g].numberOfLikes = 1
  /\ EntriesOf("v2") = {}
  /\ \E i \in 1..Len(reqs) :
       Done(i) /\ reqs[i].target = "v2" /\ RemovedTag(i)
  /\ likes = last.pre.likes

\* the Subscription rows of the channel getUserChannelSubscribers was asked for
RowsOfChannel == {x \in last.pre.subs : x.channel = last.id}
\* the answer lists one user object per row of the channel, the row's subscriber
OnePerRow(d) ==
  /\ Len(d.subscribers) = Cardinality(RowsOfChannel)
  /\ \A u \in Users :
       Cardinality({k \in 1..Len(d.subscribers) : d.subscribers[k].id = u})
         = Cardinality({x \in RowsOfChannel : x.subscriber = u})

\* C18: for a channel with n >= 1 Subscription rows getUserChannelSubscribers
\* answers with n user objects, one per row and being that row's subscriber,
\* together with numberOfSubscribers = n
C18_SubscribersWithCount ==
  (last.op = "getUserChannelSubscribers" /\ RowsOfChannel # {})
  => /\ Len(prev.data) = 1
     /\ OnePerRow(prev.data[1])
     /\ "numberOfSubscribers" \in DOMAIN prev.data[1]
     /\ prev.data[1].numberOfSubscribers = Cardinality(RowsOfChannel)

\* C18, what the handler does answer: the n user objects, and their number
\* under the key numberOfSubcribers
C18_SubscribersListed ==
  (last.op = "getUserChannelSubscribers" /\ RowsOfChannel # {})
  => /\ Len(prev.data) = 1
     /\ OnePerRow(prev.data[1])
     /\ DOMAIN prev.data[1] = {"subscribers", "numberOfSubcribers"}
     /\ prev.data[1].numberOfSubcribers = Cardinality(RowsOfChannel)

PublicFields == {"id", "username", "fullName", "email", "avatar"}
\* the elements of a sequence
Elems(q) == {q[k] : k \in 1..Len(q)}
\* the owners inlined in composed video documents (a playlist may list none)
OwnersOf(ds) == {d.owner : d \in ds}
\* every user object the latest answer carries
InlinedUsers ==
  CASE last.op = "getVideoComments" /\ last.status = 200 ->
         OwnersOf(Elems(prev.data.comments))
           \cup OwnersOf({d.video : d \in Elems(prev.data.comments)})
    [] last.op \in {"getPlaylistById", "getUserPlaylists"} ->
         OwnersOf(prev.data) \cup UNION {OwnersOf(Elems(d.videos)) : d \in prev.data}
    [] last.op \in {"getVideoById", "getChannelVideos"} -> OwnersOf(Elems(prev.data))
    [] last.op = "getAllVideos" /\ last.status = 200 -> OwnersOf(Elems(prev.data.docs))
    [] last.op = "getLikedVideos" ->
         {prev.data[g].video.owner :
            g \in {h \in DOMAIN prev.data : "video" \in DOMAIN prev.data[h]}}
    [] last.op = "getUserChannelSubscribers" ->
         UNION {Elems(d.subscribers) : d \in Elems(prev.data)}
    [] last.op = "getSubscribedChannels" ->
         UNION {Elems(d.channels) : d \in Elems(prev.data)}
    [] OTHER -> {}

\* C19: a user object inlined in a composed view (comment, playlist, video by
\* id, video list, liked videos, channel subscribers, subscribed channels) has
\* the fields _id, username, fullName, email and avatar of the User document and
\* no other field, so the views are the same whatever the password and the
\* refresh token of the users are
C19_OnlyPublicUserFields ==
  \A u \in InlinedUsers :
    /\ DOMAIN u = PublicFields
    /\ \A f \in PublicFields : u[f] = users[u.id][f]

\* C19 witness: a playlist view with its owner and the owners of two videos
\* inlined was answered from a store whose users have the password "t"
C19_Witness ==
  /\ last.op = "getPlaylistById"
  /\ Cardinality(InlinedUsers) = 2
  /\ \A u \in Users : users[u].password = "t"

\* the calls to the media store a request has made so far, as a set of positions
CallsOf(q, kind) == {k \in 1..Len(q.calls) : q.calls[k][1] = kind}
UploadFailed(q) == \E k \in CallsOf(q, "upload") : q.calls[k][2] = NoAsset
UploadError == "Error while uploading thumbnail to cloudinary"

\* C20: in updateVideo with a thumbnail file, a delete of the old thumbnail is
\* issued only after the upload of the new one has succeeded; a request whose
\* upload failed has ended with the upload error without issuing a delete, and
\* the step in which the upload failed left every Video document as it was
C20_DeleteOnlyAfterUpload ==
  /\ [](\A i \in 1..Len(reqs) :
          /\ \A k \in CallsOf(reqs[i], "destroy") :
               \E j \in CallsOf(reqs[i], "upload") :
                 j < k /\ reqs[i].calls[j][2] # NoAsset
          /\ UploadFailed(reqs[i]) =>
               /\ reqs[i].pc = "done"
               /\ reqs[i].status = 500
               /\ reqs[i].message = UploadError
               /\ CallsOf(reqs[i], "destroy") = {})
  /\ [][\A i \in 1..Len(reqs) :
          (~UploadFailed(reqs[i]) /\ UploadFailed(reqs'[i])) =>
             (videos' = videos /\ media' = media)]_vars

\* C20 witness: one request with a thumbnail file ended on a failed upload and
\* another has deleted the old thumbnail after its upload
C20_Witness ==
  \E i, j \in 1..Len(reqs) :
    /\ reqs[i].file /\ UploadFailed(reqs[i]) /\ reqs[i].pc = "done"
    /\ reqs[j].file /\ CallsOf(reqs[j], "destroy") # {}

\* the positions in a request's log of the calls of a kind that ended as asked:
\* with an asset (TRUE) or without one (FALSE)
Logged(q, kind, succeeded) ==
  {k \in 1..Len(q.calls) :
     q.calls[k][1] = kind /\ ((q.calls[k][2] # NoAsset) = succeeded)}
AnyLogged(q, kind) == {k \in 1..Len(q.calls) : q.calls[k][1] = kind}

\* C21: in publishAVideo, a request whose video upload failed never attempts
\* the thumbnail upload; a request whose thumbnail upload failed has, by the
\* time it answers (the 500 of the thumbnail), issued a delete of the video
\* asset it uploaded; neither creates a Video document, and every Video
\* document was created by a request after both of its uploads succeeded
C21_PublishCompensates ==
  /\ \A i \in 1..Len(reqs) :
       LET q == reqs[i]
       IN /\ Logged(q, "uploadVideo", FALSE) # {} =>
               /\ AnyLogged(q, "uploadThumbnail") = {}
               /\ AnyLogged(q, "create") = {}
               /\ q.pc = "done" /\ q.status = 500
               /\ q.message = "Error while uploading video"
          /\ Logged(q, "uploadThumbnail", FALSE) # {} =>
               /\ AnyLogged(q, "create") = {}
               /\ q.pc = "done" =>
                    /\ q.status = 500
                    /\ q.message = "Error while uploading thumbnail"
                    /\ \E v \in Logged(q, "uploadVideo", TRUE) :
                       \E k \in AnyLogged(q, "destroy") :
                         /\ q.calls[k][2] = q.calls[v][2]
                         /\ \A t \in Logged(q, "uploadThumbnail", FALSE) : t < k
          /\ \A c \in AnyLogged(q, "create") :
               /\ \E v \in Logged(q, "uploadVideo", TRUE) : v < c
               /\ \E t \in Logged(q, "uploadThumbnail", TRUE) : t < c
  /\ \A id \in DOMAIN videos :
       \E i \in 1..Len(reqs) :
         \E c \in AnyLogged(reqs[i], "create") : reqs[i].calls[c][2] = id

\* C21 witness: one request answered the thumbnail failure after deleting its
\* video asset and another failed on the video upload
C21_Witness ==
  /\ \E i \in 1..Len(reqs) :
       reqs[i].pc = "done" /\ Logged(reqs[i], "uploadThumbnail", FALSE) # {}
  /\ \E i \in 1..Len(reqs) : Logged(reqs[i], "uploadVideo", FALSE) # {}

\* the URL names no asset: nothing follows its last "/", or what follows
\* begins with "."
NamesNoAsset(url) ==
  LET start == IF \E k \in 1..Len(url) : url[k] = "/"
               THEN 1 + CHOOSE k \in 1..Len(url) :
                          url[k] = "/" /\ \A j \in (k + 1)..Len(url) : url[j] # "/"
               ELSE 1
  IN start > Len(url) \/ url[start] = "."

\* the positions in a request's log of the media deletes that returned false
FailedDestroys(q) ==
  {k \in 1..Len(q.calls) : q.calls[k][1] = "destroy" /\ ~q.calls[k][3]}

\* C22: deleteFromCloudinary returns a boolean for every URL and every outcome
\* of the destroy call, and false on a missing URL, an empty public id, a result
\* other than "ok" and an exception; a deleteVideo request carries on after a
\* media delete that returned false, issues the delete of the thumbnail and of
\* the video file before the delete of the document, and answers 200 with the
\* document gone; an updateVideo request whose media delete returned false
\* still saves the new thumbnail, title and description and answers 200
C22_MediaDeleteNeverFails ==
  /\ [](/\ \A url \in Urls, response \in Responses :
             /\ deleteFromCloudinary(url, response) \in BOOLEAN
             /\ (url = <<>> \/ NamesNoAsset(url) \/ response # "ok")
                  => deleteFromCloudinary(url, response) = FALSE
        /\ \A i \in 1..Len(reqs) :
             LET q == reqs[i]
             IN /\ (q.op = "deleteVideo" /\ FailedDestroys(q) # {} /\ q.pc = "done")
                     => q.status = 200
                /\ (q.op = "deleteVideo" /\ q.status = 200) =>
                     /\ Len(q.calls) = 3
                     /\ q.calls[1][1] = "destroy" /\ q.calls[1][2] = q.doc.thumbnail
                     /\ q.calls[2][1] = "destroy" /\ q.calls[2][2] = q.doc.videoFile
                     /\ q.calls[3] = <<"delete", q.id>>
                     /\ q.id \notin DOMAIN videos
                /\ (q.op = "updateVideo" /\ FailedDestroys(q) # {} /\ q.pc = "done")
                     => (q.status = 200 \/ q.message = "DocumentNotFoundError"))
  /\ [][\A i \in 1..Len(reqs) :
          (/\ reqs[i].op = "updateVideo"
           /\ FailedDestroys(reqs[i]) # {}
           /\ reqs[i].pc = "save"
           /\ reqs'[i].pc = "done"
           /\ reqs[i].id \in DOMAIN videos)
          => /\ reqs'[i].status = 200
             /\ videos'[reqs[i].id].thumbnail = reqs[i].uploaded
             /\ videos'[reqs[i].id].title = reqs[i].text
             /\ videos'[reqs[i].id].description = reqs[i].text2]_vars

\* C22 witness: a deleteVideo request answered 200 after both of its media
\* deletes returned false, and an updateVideo request answered 200 after its
\* media delete returned false
C22_Witness ==
  \E i, j \in 1..Len(reqs) :
    /\ reqs[i].op = "deleteVideo" /\ reqs[i].status = 200
    /\ Cardinality(FailedDestroys(reqs[i])) = 2
    /\ reqs[j].op = "updateVideo" /\ reqs[j].status = 200
    /\ FailedDestroys(reqs[j]) # {}

PagedOps == {"getVideoComments", "getAllVideos"}
\* the parameters that are not left out and do not parse as a finite number
NotFinite == {"abc", "Infinity"}
\* the parameters on which Number(...) is NaN
NotANumber == {"abc"}

\* C23: getVideoComments and getAllVideos answer 400, without a result, when
\* page or limit does not parse as a finite number, and use page 1 and limit 10
\* for the one left out
C23_NonFinitePagingRejected ==
  last.op \in PagedOps =>
    /\ (last.text \in NotFinite \/ last.text2 \in NotFinite) =>
         (last.status = 400 /\ prev.data = {})
    /\ (last.status = 200 /\ last.text = "omitted") => prev.data.page = 1
    /\ (last.status = 200 /\ last.text2 = "omitted") => prev.data.limit = 10

\* C23, what the isNaN check does guarantee: the 400 when Number(page) or
\* Number(limit) is NaN, and the defaults for a parameter left out
C23_NaNPagingRejected ==
  last.op \in PagedOps =>
    /\ (last.text \in NotANumber \/ last.text2 \in NotANumber) =>
         (last.status = 400 /\ last.message = "Invalid page & limit passed"
          /\ prev.data = {})
    /\ (last.status = 200 /\ last.text = "omitted") => prev.data.page = 1
    /\ (last.status = 200 /\ last.text2 = "omitted") => prev.data.limit = 10

\* the number a parameter that parses as a finite number stands for
NumberOf(param, default) ==
  CASE param = "1" -> 1 [] param = "2" -> 2 [] param = "3" -> 3 [] OTHER -> default
\* the size of the set the latest paginated query matched
MatchedCount ==
  IF last.op = "getVideoComments"
  THEN Cardinality({c \in DOMAIN comments : comments[c].video = last.id})
  ELSE Cardinality({v \in DOMAIN videos : videos[v].owner = last.id})
ItemsOf(d) == IF last.op = "getVideoComments" THEN d.comments ELSE d.docs
TotalOf(d) == IF last.op = "getVideoComments" THEN d.totalComments ELSE d.totalDocs
\* the lengths of the pages 1..pages of a result of n items, added up
RECURSIVE SumOfPages(_, _, _)
SumOfPages(n, limit, pages) ==
  IF pages = 0 THEN 0
  ELSE Len(Paginate([k \in 1..n |-> k], pages, limit).docs)
         + SumOfPages(n, limit, pages - 1)

\* C24: a paginated query (getVideoComments, getAllVideos) with a limit >= 1
\* answers at most limit items, reports as total the size of the matched set
\* whatever the page, answers an empty sequence, not an error, for a page past
\* the last one, and the lengths of the pages 1..totalPages add up to the total
C24_PagesCoverTheResult ==
  (/\ last.op \in PagedOps
   /\ last.status = 200
   /\ last.text \notin NotFinite
   /\ last.text2 \notin NotFinite) =>
    LET page == NumberOf(last.text, 1)
        limit == NumberOf(last.text2, 10)
        d == prev.data
    IN /\ Len(ItemsOf(d)) <= limit
       /\ TotalOf(d) = MatchedCount
       /\ page > d.totalPages => ItemsOf(d) = <<>>
       /\ page < d.totalPages => Len(ItemsOf(d)) = limit
       /\ SumOfPages(MatchedCount, limit, d.totalPages) = MatchedCount
       /\ Paginate([k \in 1..MatchedCount |-> k], d.totalPages + 1, limit).docs = <<>>

\* C24 witness: three videos matched, asked for by twos: the third page is
\* answered with an empty sequence
C24_Witness ==
  /\ last.op = "getAllVideos"
  /\ last.status = 200
  /\ last.text = "3" /\ last.text2 = "2"
  /\ prev.data.totalDocs = 3
  /\ prev.data.totalPages = 2
  /\ prev.data.docs = <<>>

TargetFields == {"video", "comment", "tweet"}
\* the target fields a Like row has set
FieldsSet(x) == {f \in TargetFields : x[f] # Unset}
\* the target field a Like toggle is about
OwnField(op) ==
  CASE op = "toggleVideoLike" -> "video"
    [] op = "toggleCommentLike" -> "comment"
    [] OTHER -> "tweet"

\* C25: every Like row has likedBy set and exactly one of video, comment and
\* tweet set; the row a Like toggle creates has the toggle's own target field
\* set, and no step changes a field of a row that exists
C25_LikeHasOneTarget ==
  /\ [](/\ \A x \in likes :
             x.likedBy \in Users /\ Cardinality(FieldsSet(x)) = 1
        /\ \A i \in 1..Len(reqs) :
             (Done(i) /\ reqs[i].op \in LikeOps /\ reqs[i].status = 201) =>
               \A x \in reqs[i].data :
                 /\ FieldsSet(x) = {OwnField(reqs[i].op)}
                 /\ x \in reqs[i].likes1)
  /\ [][\A x \in likes : \A y \in likes' : y.id = x.id => y = x]_vars

\* C25 witness: the collection holds a row of each of the three Like toggles
C25_Witness ==
  \A f \in TargetFields : \E x \in likes : FieldsSet(x) = {f}

\* the Like toggles that answered "Like removed successfully"
RemovedResponses ==
  {i \in 1..Len(reqs) :
     Done(i) /\ reqs[i].op \in LikeOps /\ reqs[i].message = "Like removed successfully"}
\* every Like row there has been: those the first request found and those created
LikeRowsEver ==
  likes \cup UNION {reqs[i].likes0 \cup reqs[i].likes1 : i \in 1..Len(reqs)}

\* C26: a Like toggle that answers "Like removed successfully" carries the one
\* row it deleted (never null), a row of its own pair that is gone, and no two
\* such answers carry the same row, also when toggles interleave; so there are
\* no more such answers than rows deleted
C26_RemovedMeansDeleted ==
  /\ \A i \in RemovedResponses :
       /\ Cardinality(reqs[i].data) = 1
       /\ reqs[i].data \subseteq Edge0(i) \ likes
  /\ \A i, j \in RemovedResponses : reqs[i].data = reqs[j].data => i = j
  /\ Cardinality(RemovedResponses) <= Cardinality(LikeRowsEver \ likes)

\* C26, what holds when the toggles of a pair do not interleave (one request
\* after the other): every "removed" answer carries the row it deleted
C26_SequentialRemovedMeansDeleted ==
  \A i \in RemovedResponses :
    /\ Cardinality(reqs[i].data) = 1
    /\ reqs[i].data \subseteq Edge0(i) \ reqs[i].likes1

\* the requests up to i on the pair of request i that reported a removal
RemovalsOnPair(i) ==
  {j \in 1..i : Done(j) /\ SamePair(i, j) /\ RemovedTag(j)}

\* C27: a toggle that finds k >= 2 rows of its (actor, target) or (subscriber,
\* channel) pair deletes exactly one of them and nothing else, reports the
\* removal, and leaves k - 1 rows, so the pair is still Present; a pair that
\* had k rows is Absent only after k toggles that reported a removal
C27_ToggleRemovesOneRow ==
  \A i \in 1..Len(reqs) :
    (Done(i) /\ HasTarget(i)) =>
      /\ Cardinality(Edge0(i)) >= 2 =>
           /\ RemovedTag(i)
           /\ \E row \in Edge0(i) :
                /\ reqs[i].likes1 = reqs[i].likes0 \ {row}
                /\ reqs[i].subs1 = reqs[i].subs0 \ {row}
           /\ Cardinality(Edge1(i)) = Cardinality(Edge0(i)) - 1
           /\ Edge1(i) # {}
      /\ Edge1(i) = {} =>
           Cardinality(RemovalsOnPair(i))
             >= Cardinality(PairRows(i, reqs[1].likes0, reqs[1].subs0))

\* C27 witness: three rows of one Like pair took three toggles, each reporting
\* a removal, to reach Absent
C27_Witness ==
  \E i \in 1..Len(reqs) :
    /\ Done(i)
    /\ reqs[i].op = "toggleVideoLike"
    /\ Cardinality(PairRows(i, reqs[1].likes0, reqs[1].subs0)) = 3
    /\ Edge1(i) = {}
    /\ Cardinality(RemovalsOnPair(i)) = 3

\* C28: deleteVideo leaves every playlist as it was; the playlist owner's
\* removeVideoFromPlaylist of a listed video that has been deleted is answered
\* 404 and leaves the playlist as it was; so the id of a deleted member video
\* stays in the playlist's videos through every later add and remove
C28_DeletedVideoStaysListed ==
  /\ []((last.op = "deleteVideo" /\ last.status = 200) =>
          playlists = last.pre.playlists)
  /\ []((/\ last.op = "removeVideoFromPlaylist"
         /\ OwnRequest(last)
         /\ last.video \notin DOMAIN last.pre.videos
         /\ Member(last.pre.playlists[last.id].videos, last.video))
        => /\ last.status = 404
           /\ last.message = "Video not found"
           /\ playlists = last.pre.playlists)
  /\ [][\A q \in DOMAIN playlists : \A v \in VideoIds :
          (Member(playlists[q].videos, v) /\ v \notin DOMAIN videos')
            => (q \in DOMAIN playlists' /\ Member(playlists'[q].videos, v))]_vars

\* C28 witness: the owner asked to remove a listed video that had been deleted,
\* from a playlist that lists another video after it
C28_Witness ==
  /\ last.op = "removeVideoFromPlaylist"
  /\ OwnRequest(last)
  /\ last.status = 404
  /\ last.video \notin DOMAIN videos
  /\ Len(playlists[last.id].videos) = 2
  /\ playlists[last.id].videos[1] = last.video

====
